---- MODULE Spec2Model ----
(***************************************************************************)
(* A model of mediapipe/gpu/gl_context.cc: the dedicated GL thread and its *)
(* job queue, the context hand-off (SwitchContext), the sync point classes *)
(* and the cross-context glFinish coordination                             *)
(* (GlContext::WaitForGlFinishCountPast).                                  *)
(*                                                                         *)
(* One set of variables holds the state of all components.  Each component *)
(* has its own specification (Init and Next over the same variables), so   *)
(* that each can be explored within small bounds:                          *)
(*   SpecThread  the dedicated thread: PutJob / GetJob / Run / ThreadBody  *)
(*   SpecSwitch  the hand-off: SwitchContext / EnterContext / ExitContext  *)
(*   SpecSync    the sync points: GlFinishSyncPoint, GlFenceSyncPoint and  *)
(*               GlMultiSyncPoint, used by one thread at a time            *)
(*   SpecFinish  GlFinishSyncPoint::Wait, that is WaitForGlFinishCountPast,*)
(*               called by dedicated threads and other threads             *)
(*   SpecFinishFair  SpecFinish with every thread scheduled fairly         *)
(*   SpecDestroy ~GlContext and ~DedicatedThread, from another thread and  *)
(*               from the dedicated thread itself (SelfDestruct)           *)
(*   SpecDestroyFair  SpecDestroy with every thread scheduled fairly       *)
(*   SpecAndRun  SwitchContextAndRun on threads without a dedicated thread *)
(*   SpecFence   the constructor of GlFenceSyncPoint                       *)
(*   SpecRaise   SpecFinish with one more Wait() call and no two dedicated *)
(*               threads waiting on each other                             *)
(*   SpecFenceDelete  GlFenceSyncPoint: Wait, WaitOnGpu, IsReady and the   *)
(*               destructor, on a context with a dedicated thread and on   *)
(*               one without                                               *)
(*   SpecInline  WaitForGlFinishCountPast on contexts without a dedicated  *)
(*               thread: the flush task runs inline in RunWithoutWaiting   *)
(***************************************************************************)
EXTENDS Integers, Sequences, FiniteSets, TLC

\* ------------------------------------------------------------------ bounds
\* Contexts are 1..NumContexts; the dedicated thread of context c is thread c.
NumContexts == 2
\* Threads that are no context's dedicated thread: NumContexts+1 .. NumContexts+NumPlain.
NumPlain == 2
\* Jobs submitted to dedicated threads in one behaviour of Spec.
MaxJobs == 3
\* Sync points created in one behaviour of SpecSync.
MaxTokens == 3
\* The largest gl_finish_count_ a context reaches in one behaviour of SpecSync.
MaxFinish == 1
\* Jobs given to Run and RunWithoutWaiting in one behaviour of SpecDestroy
\* (the jobs of the destructors come on top).
MaxDestroyJobs == 2
\* GlFinishSyncPoint::Wait calls made in one behaviour of SpecFinish.
MaxWaits == 2
\* GlFinishSyncPoint::Wait calls made in one behaviour of SpecRaise.
MaxRaiseWaits == 3
\* GlFenceSyncPoint objects made in one behaviour of SpecFenceDelete.
MaxFences == 2
\* GlFinishSyncPoint::Wait calls made in one behaviour of SpecInline.
MaxInlineWaits == 2

Contexts == 1..NumContexts
PlainThreads == (NumContexts + 1)..(NumContexts + NumPlain)
Threads == Contexts \cup PlainThreads
None == 0

StatusValues == {"OK", "ERR"}

VARIABLES
  \* ---- GlContext::DedicatedThread, one per context
  jobs_,          \* [Contexts -> Seq(job)]: the deque jobs_, front first
  wpc,            \* [Contexts -> position of ThreadBody]
  wjob,           \* [Contexts -> the job ThreadBody took and is executing]
  done,           \* [Threads -> BOOLEAN]: Run's local `done` of the caller
  status,         \* [Threads -> status]: Run's local `status` of the caller
  rpc,            \* [Threads -> position of the thread in DedicatedThread::Run]
  rarg,           \* [Threads -> id of the gl_func of the thread's pending Run call]
  ret,            \* [Threads -> what the last Run call returned to the thread]
  \* ---- history of the dedicated threads (what the callers observe)
  nextId,         \* the number of gl_func objects handed to Run/RunWithoutWaiting
  submitted,      \* [Contexts -> Seq(job)]: the jobs in the order they were submitted
  executed,       \* [Contexts -> Seq([id, by])]: gl_func calls in the order they began
  \* ---- the hand-off: GlContext::SwitchContext
  thread_,        \* [Contexts -> BOOLEAN]: the context has a DedicatedThread (thread_)
  context_use_mutex_, \* [Contexts -> the thread that holds context_use_mutex_, or None]
  current,        \* [Threads -> CurrentContext() of the thread (thread_local), or None]
  native,         \* [Threads -> the context natively bound to the thread, or None]
  spc,            \* [Threads -> position of the thread in SwitchContext]
  sold,           \* [Threads -> old_context_obj of the thread's SwitchContext call]
  snew,           \* [Threads -> new_context_obj of the thread's SwitchContext call]
  saved_context,  \* [Threads -> saved_context->context_object last written]
  sret,           \* [Threads -> the status the thread's last SwitchContext returned]
  \* ---- the sync points
  gl_finish_count_,   \* [Contexts -> gl_finish_count_]
  tokens,         \* [TokenIds -> the sync point object with that id]
  syncs_,         \* GlMultiSyncPoint::syncs_ of one aggregate: Seq(TokenIds)
  lastReady,      \* [0..MaxTokens -> IsReady() was called and last returned true; 0: the aggregate]
  addedSince,     \* Add was called on the aggregate after its last IsReady()
  \* ---- GlContext::WaitForGlFinishCountPast
  gl_finish_count_target_,  \* [Contexts -> gl_finish_count_target_]
  context_waiting_on_,      \* [Contexts -> context_waiting_on_, or None]
  mutex_,         \* [Contexts -> the thread that holds GlContext::mutex_, or None]
  fpc,            \* [Threads -> position of the thread in WaitForGlFinishCountPast]
  fctx,           \* [Threads -> `this` of the thread's call]
  fcount,         \* [Threads -> count_to_pass of the thread's call]
  fother,         \* [Threads -> `other` of the thread's call]
  fcall,          \* [Threads -> number of the thread's latest call, 0: none yet]
  fret,           \* [Threads -> number of the thread's latest call that returned]
  ncalls,         \* calls of WaitForGlFinishCountPast made so far
  \* ---- destruction: GlContext::~GlContext and ~DedicatedThread
  self_destruct_, \* [Contexts -> DedicatedThread::self_destruct_]
  dpc,            \* [Contexts -> position of the run of ~GlContext on the context]
  dby,            \* [Contexts -> the thread that runs ~GlContext, or None]
  deleted,        \* [Contexts -> how many times the DedicatedThread object was deleted]
  detached,       \* [Contexts -> gl_thread_.detach() was called]
  \* ---- GlContext::SwitchContextAndRun
  apc,            \* [Threads -> position of the thread in SwitchContextAndRun]
  actx,           \* [Threads -> `this` of the thread's SwitchContextAndRun call]
  abefore,        \* [Threads -> the thread's bindings and use-locks when it made the call]
  \* ---- the GlFenceSyncPoint constructor
  ctor,           \* [Threads -> id of the sync point the thread is constructing, or 0]
  dtor            \* [Threads -> id of the sync point the thread is destroying, or 0]

threadVars == <<jobs_, wpc, wjob, done, status, rpc, rarg, ret, nextId, submitted, executed>>
switchVars == <<thread_, context_use_mutex_, current, native, spc, sold, snew, saved_context, sret>>

syncVars == <<gl_finish_count_, tokens, syncs_, lastReady, addedSince>>

finishVars == <<gl_finish_count_target_, context_waiting_on_, mutex_, fpc, fctx, fcount,
                fother, fcall, fret, ncalls>>

destroyVars == <<self_destruct_, dpc, dby, deleted, detached>>
\* The calls a thread is inside of, besides those above.
frameVars == <<apc, actx, abefore, ctor, dtor>>

vars == <<threadVars, switchVars, syncVars, finishVars, frameVars, destroyVars>>

\* What the actions of one component leave alone.
nonThreadVars == <<switchVars, syncVars, finishVars, frameVars, destroyVars>>
nonSwitchVars == <<threadVars, syncVars, finishVars, frameVars, destroyVars>>
nonSyncVars == <<threadVars, switchVars, finishVars, frameVars, destroyVars>>
nonFinishVars == <<done, status, rpc, rarg, ret, nextId, submitted, executed, switchVars,
                   tokens, syncs_, lastReady, addedSince, frameVars, destroyVars>>

TokenIds == 1..MaxTokens
\* No sync point object (yet) under an id.
NoToken == [kind |-> "none", ctx |-> None, count |-> 0, sync_ |-> FALSE, fence |-> "none"]

\* ------------------------------------------------------- DedicatedThread
\* DedicatedThread::gl_thread_ of context c: the thread the constructor starts.
WorkerOf(c) == c

NoJob == [id |-> 0, kind |-> "none", caller |-> None, st |-> "OK"]
\* `Job job = {}`: the invalid job that signals termination.
Sentinel == [id |-> 0, kind |-> "sentinel", caller |-> None, st |-> "OK"]

\* gl_thread_.get_id() == std::this_thread::get_id()
IsCurrentThreadNever(c, t) == FALSE
IsCurrentThread(c, t) == WorkerOf(c) = t

\* PutJob: jobs_.push_back(job) under mutex_ (has_jobs_cv_ wakes GetJob).
PutJobFront(q, job) == <<job>> \o q
PutJob(q, job) == Append(q, job)

\* GetJob on a non-empty deque: the job it returns (jobs_.front()) and the deque
\* it leaves (jobs_.pop_front()).
GetJobLifo(q) == [job |-> q[Len(q)], rest |-> SubSeq(q, 1, Len(q) - 1)]
GetJob(q) == [job |-> Head(q), rest |-> Tail(q)]

\* The job closure of Run, lines 147-149: done = true under mutex_, then
\* gl_job_done_cv_.SignalAll().  `done` is a local of the caller's Run call.
SetDoneShared(d, caller) == [t \in Threads |-> TRUE]
SetDone(d, caller) == [d EXCEPT ![caller] = TRUE]

\* A thread in no context, holding no use-lock.
NoBindings == [current |-> None, native |-> None, held |-> {}]

\* The state after construction and FinishInitialization(create_thread) of every
\* context c, create_thread[c] being its argument, no call under way.  The
\* DedicatedThread of a context made with one (lines 266-269) is in ThreadBody
\* with an empty queue and has entered its context; no thread is bound to a
\* context made without.
InitWith(create_thread) ==
  /\ jobs_ = [c \in Contexts |-> <<>>]
  /\ wpc = [c \in Contexts |-> "get"]
  /\ wjob = [c \in Contexts |-> NoJob]
  /\ done = [t \in Threads |-> FALSE]
  /\ status = [t \in Threads |-> "OK"]
  /\ rpc = [t \in Threads |-> "idle"]
  /\ rarg = [t \in Threads |-> 0]
  /\ ret = [t \in Threads |-> [id |-> 0, st |-> "OK"]]
  /\ nextId = 0
  /\ submitted = [c \in Contexts |-> <<>>]
  /\ executed = [c \in Contexts |-> <<>>]
  /\ thread_ = create_thread
  /\ context_use_mutex_ = [c \in Contexts |-> IF create_thread[c] THEN WorkerOf(c) ELSE None]
  /\ current = [t \in Threads |-> IF t \in Contexts /\ create_thread[t] THEN t ELSE None]
  /\ native = [t \in Threads |-> IF t \in Contexts /\ create_thread[t] THEN t ELSE None]
  /\ spc = [t \in Threads |-> "idle"]
  /\ sold = [t \in Threads |-> None]
  /\ snew = [t \in Threads |-> None]
  /\ saved_context = [t \in Threads |-> None]
  /\ sret = [t \in Threads |-> "OK"]
  /\ gl_finish_count_ = [c \in Contexts |-> 0]
  /\ tokens = [i \in TokenIds |-> NoToken]
  /\ syncs_ = <<>>
  /\ lastReady = [i \in 0..MaxTokens |-> FALSE]
  /\ addedSince = FALSE
  /\ gl_finish_count_target_ = [c \in Contexts |-> 0]
  /\ context_waiting_on_ = [c \in Contexts |-> None]
  /\ mutex_ = [c \in Contexts |-> None]
  /\ fpc = [t \in Threads |-> "idle"]
  /\ fctx = [t \in Threads |-> None]
  /\ fcount = [t \in Threads |-> 0]
  /\ fother = [t \in Threads |-> None]
  /\ fcall = [t \in Threads |-> 0]
  /\ fret = [t \in Threads |-> 0]
  /\ ncalls = 0
  /\ self_destruct_ = [c \in Contexts |-> FALSE]
  /\ dpc = [c \in Contexts |-> "alive"]
  /\ dby = [c \in Contexts |-> None]
  /\ deleted = [c \in Contexts |-> 0]
  /\ detached = [c \in Contexts |-> FALSE]
  /\ apc = [t \in Threads |-> "idle"]
  /\ actx = [t \in Threads |-> None]
  /\ abefore = [t \in Threads |-> NoBindings]
  /\ ctor = [t \in Threads |-> 0]
  /\ dtor = [t \in Threads |-> 0]

\* Every context has a dedicated thread.
Init == InitWith([c \in Contexts |-> TRUE])
\* No context has a dedicated thread.
InitNoThread == InitWith([c \in Contexts |-> FALSE])
\* The last context has no dedicated thread, the others have one.
InitMixed == InitWith([c \in Contexts |-> c < NumContexts])

\* Thread t is running code that may call into a DedicatedThread: a thread that
\* is no dedicated thread, or a dedicated thread inside job() (line 128), and
\* not blocked in a Run call of its own.
CanCall(t) ==
  /\ rpc[t] = "idle"
  /\ t \in Contexts => wpc[t] = "job"
  /\ \A c \in Contexts : dby[c] = t => dpc[c] = "destroyed"

\* DedicatedThread::Run(gl_func) on the dedicated thread of c, called by t;
\* st is the status gl_func returns.
Run(c, t, st) ==
  LET job == [id |-> nextId + 1, kind |-> "run", caller |-> t, st |-> st] IN
  /\ CanCall(t)
  /\ dpc[c] = "alive"
  /\ nextId < MaxJobs
  /\ nextId' = nextId + 1
  /\ submitted' = [submitted EXCEPT ![c] = Append(@, job)]
  /\ IF IsCurrentThread(c, t)
     THEN \* line 141: return gl_func();
          /\ executed' = [executed EXCEPT ![c] = Append(@, [id |-> job.id, by |-> t])]
          /\ ret' = [ret EXCEPT ![t] = [id |-> job.id, st |-> st]]
          /\ UNCHANGED <<jobs_, done, status, rpc, rarg>>
     ELSE \* lines 143-150: done = false; PutJob(closure); then wait for done
          /\ done' = [done EXCEPT ![t] = FALSE]
          /\ jobs_' = [jobs_ EXCEPT ![c] = PutJob(@, job)]
          /\ rpc' = [rpc EXCEPT ![t] = "wait"]
          /\ rarg' = [rarg EXCEPT ![t] = job.id]
          /\ UNCHANGED <<executed, ret, status>>
  /\ UNCHANGED <<wpc, wjob>>
  /\ UNCHANGED nonThreadVars

\* Run, lines 152-156: while (!done) gl_job_done_cv_.Wait(&mutex_); return status;
RunReturn(t) ==
  /\ rpc[t] = "wait"
  /\ done[t]
  /\ rpc' = [rpc EXCEPT ![t] = "idle"]
  /\ ret' = [ret EXCEPT ![t] = [id |-> rarg[t], st |-> status[t]]]
  /\ UNCHANGED <<jobs_, wpc, wjob, done, status, rarg, nextId, submitted, executed>>
  /\ UNCHANGED nonThreadVars

\* DedicatedThread::RunWithoutWaiting(gl_func): PutJob only.
RunWithoutWaitingInline(c, t) ==
  /\ CanCall(t)
  /\ dpc[c] = "alive"
  /\ nextId < MaxJobs
  /\ nextId' = nextId + 1
  /\ submitted' = [submitted EXCEPT ![c] =
        Append(@, [id |-> nextId + 1, kind |-> "void", caller |-> t, st |-> "OK"])]
  /\ executed' = [executed EXCEPT ![c] = Append(@, [id |-> nextId + 1, by |-> t])]
  /\ UNCHANGED <<jobs_, wpc, wjob, done, status, rpc, rarg, ret>>
  /\ UNCHANGED nonThreadVars
RunWithoutWaiting(c, t) ==
  LET job == [id |-> nextId + 1, kind |-> "void", caller |-> t, st |-> "OK"] IN
  /\ CanCall(t)
  /\ dpc[c] = "alive"
  /\ nextId < MaxJobs
  /\ nextId' = nextId + 1
  /\ submitted' = [submitted EXCEPT ![c] = Append(@, job)]
  /\ jobs_' = [jobs_ EXCEPT ![c] = PutJob(@, job)]
  /\ UNCHANGED <<wpc, wjob, done, status, rpc, rarg, ret, executed>>
  /\ UNCHANGED nonThreadVars

\* ThreadBody, lines 123-128: Job job = GetJob(); if (!job) break; and job()
\* begins (gl_func is entered).
ThreadBodyGetJob(c) ==
  /\ wpc[c] = "get"
  /\ jobs_[c] # <<>>
  /\ jobs_' = [jobs_ EXCEPT ![c] = GetJob(@).rest]
  /\ IF GetJob(jobs_[c]).job.kind = "sentinel"
     THEN /\ wpc' = [wpc EXCEPT ![c] = "exit"]
          /\ UNCHANGED <<wjob, executed>>
     ELSE /\ wpc' = [wpc EXCEPT ![c] = "job"]
          /\ wjob' = [wjob EXCEPT ![c] = GetJob(jobs_[c]).job]
          /\ executed' = [executed EXCEPT ![c] =
                 Append(@, [id |-> GetJob(jobs_[c]).job.id, by |-> WorkerOf(c)])]
  /\ UNCHANGED <<done, status, rpc, rarg, ret, nextId, submitted>>
  /\ UNCHANGED nonThreadVars

\* The job ~GlContext of context c gives to thread_->Run, lines 344-349: it
\* returns ExitContext(nullptr), which unbinds the native context.
IsExitJob(c, job) == dpc[c] = "run" /\ job.kind = "run" /\ job.id = rarg[dby[c]]

\* The job the GlFenceSyncPoint constructor gives to gl_context_->Run, lines
\* 524-527: sync_ = glFenceSync(GL_SYNC_GPU_COMMANDS_COMPLETE, 0); glFlush().
IsFenceJob(job) ==
  job.kind = "run" /\ ctor[job.caller] # 0 /\ job.id = rarg[job.caller]
FenceInserted(tok) == [tok EXCEPT !.sync_ = TRUE, !.fence = "unsignaled"]
\* glDeleteSync(sync), lines 533, 547 and 567: the GL sync object is deleted; a
\* second deletion of the same object is recorded as such.
DeleteSync(tok) ==
  [tok EXCEPT !.fence = IF @ = "deleted" THEN "deleted twice" ELSE "deleted"]

\* ThreadBody, line 128: gl_func returns.  For a job of Run this is line 146,
\* status = gl_func(); for a job of RunWithoutWaiting the job is over.  The
\* calls gl_func itself makes (Run, RunWithoutWaiting) come before this step.
ThreadBodyJob(c) ==
  /\ wpc[c] = "job"
  /\ rpc[WorkerOf(c)] = "idle"
  /\ dpc[c] # "self"
  /\ IF wjob[c].kind = "run"
     THEN /\ status' = [status EXCEPT ![wjob[c].caller] = wjob[c].st]
          /\ wpc' = [wpc EXCEPT ![c] = "done"]
          /\ UNCHANGED wjob
     ELSE /\ wpc' = [wpc EXCEPT ![c] = "get"]
          /\ wjob' = [wjob EXCEPT ![c] = NoJob]
          /\ UNCHANGED status
  /\ native' = IF IsExitJob(c, wjob[c]) /\ wjob[c].st = "OK"
               THEN [native EXCEPT ![WorkerOf(c)] = None]
               ELSE native
  /\ UNCHANGED <<jobs_, done, rpc, rarg, ret, nextId, submitted, executed>>
  /\ tokens' = IF IsFenceJob(wjob[c])
               THEN [tokens EXCEPT ![ctor[wjob[c].caller]] = FenceInserted(@)]
               ELSE IF wjob[c].kind = "delete"
                    THEN [tokens EXCEPT ![wjob[c].sync] = DeleteSync(@)]
                    ELSE tokens
  /\ UNCHANGED <<thread_, context_use_mutex_, current, spc, sold, snew, saved_context, sret>>
  /\ UNCHANGED <<gl_finish_count_, syncs_, lastReady, addedSince>>
  /\ UNCHANGED <<finishVars, frameVars, destroyVars>>

\* The job closure of Run, lines 147-149.
ThreadBodyJobDone(c) ==
  /\ wpc[c] = "done"
  /\ done' = SetDone(done, wjob[c].caller)
  /\ wpc' = [wpc EXCEPT ![c] = "get"]
  /\ wjob' = [wjob EXCEPT ![c] = NoJob]
  /\ UNCHANGED <<jobs_, status, rpc, rarg, ret, nextId, submitted, executed>>
  /\ UNCHANGED nonThreadVars

ThreadNext ==
  \/ \E c \in Contexts, t \in Threads, st \in StatusValues : Run(c, t, st)
  \/ \E t \in Threads : RunReturn(t)
  \/ \E c \in Contexts, t \in Threads : RunWithoutWaiting(c, t)
  \/ \E c \in Contexts : ThreadBodyGetJob(c)
  \/ \E c \in Contexts : ThreadBodyJob(c)
  \/ \E c \in Contexts : ThreadBodyJobDone(c)

SpecThread == Init /\ [][ThreadNext]_vars

\* ------------------------------------------- claims: the dedicated thread
Ids(seq) == [i \in 1..Len(seq) |-> seq[i].id]
IsPrefix(a, b) == Len(a) <= Len(b) /\ \A i \in 1..Len(a) : a[i] = b[i]
\* The submitted job with this id on context c (NoJob when there is none).
JobOf(c, id) ==
  IF \E i \in 1..Len(submitted[c]) : submitted[c][i].id = id
  THEN submitted[c][CHOOSE i \in 1..Len(submitted[c]) : submitted[c][i].id = id]
  ELSE NoJob
\* Run called on the dedicated thread of c by that thread itself.
IsReentrant(c, job) == job.kind = "run" /\ job.caller = WorkerOf(c)
QueuedJobs(c) == SelectSeq(submitted[c], LAMBDA j : ~IsReentrant(c, j))
QueuedRuns(c) == SelectSeq(executed[c], LAMBDA e : ~IsReentrant(c, JobOf(c, e.id)))

\* C2 as stated: on every context, the jobs given to Run or RunWithoutWaiting
\* by any thread, the dedicated thread included, run in the order in which
\* they were submitted.
C2_FifoAllCallers ==
  \A c \in Contexts : IsPrefix(Ids(executed[c]), Ids(submitted[c]))

\* C2, amended: on every context, the jobs that were put on the queue (every
\* job but those the dedicated thread gives to Run itself, which run inline)
\* run in the order in which they were submitted.
C2_FifoQueued ==
  \A c \in Contexts : IsPrefix(Ids(QueuedRuns(c)), Ids(QueuedJobs(c)))

\* Two queued jobs of different callers have run on one context.
C2_Witness ==
  \E c \in Contexts : \E i, j \in 1..Len(QueuedRuns(c)) :
    /\ i < j
    /\ JobOf(c, QueuedRuns(c)[i].id).caller # JobOf(c, QueuedRuns(c)[j].id).caller

\* C9: a step in which the dedicated thread of c calls Run on itself runs
\* gl_func on that thread within the step, returns its status, puts nothing
\* on any queue and leaves the thread out of the wait for `done`.
C9_ReentrantRunInline ==
  [][\A c \in Contexts :
       ( /\ Len(submitted'[c]) = Len(submitted[c]) + 1
         /\ IsReentrant(c, submitted'[c][Len(submitted'[c])]) )
       => LET job == submitted'[c][Len(submitted'[c])] IN
          /\ jobs_' = jobs_
          /\ executed'[c] = Append(executed[c], [id |-> job.id, by |-> WorkerOf(c)])
          /\ ret'[WorkerOf(c)] = [id |-> job.id, st |-> job.st]
          /\ rpc'[WorkerOf(c)] = "idle"
          /\ done' = done
    ]_vars

\* The dedicated thread of a context has called Run on itself while another
\* job was waiting on its queue, and got the failing status of its gl_func.
C9_Witness ==
  \E c \in Contexts :
    /\ IsReentrant(c, JobOf(c, ret[WorkerOf(c)].id))
    /\ ret[WorkerOf(c)].st = "ERR"
    /\ jobs_[c] # <<>>

\* C10: a Run call of a thread that is not the dedicated thread has returned
\* only if the caller's own job has run on the dedicated thread and its
\* gl_func is over, and it returned the status of that job.
C10_RunReturnsOwnJob ==
  \A t \in Threads : \A c \in Contexts :
    (ret[t].id # 0 /\ JobOf(c, ret[t].id).kind = "run" /\ ~IsCurrentThread(c, t))
    => /\ JobOf(c, ret[t].id).caller = t
       /\ ret[t].st = JobOf(c, ret[t].id).st
       /\ \E i \in 1..Len(executed[c]) :
            executed[c][i] = [id |-> ret[t].id, by |-> WorkerOf(c)]
       /\ ~(wpc[c] = "job" /\ wjob[c].id = ret[t].id)

\* Two threads have called Run on the same dedicated thread concurrently and
\* both calls have returned, one with OK and one with an error.
C10_Witness ==
  \E c \in Contexts : \E t, u \in PlainThreads :
    /\ t # u
    /\ JobOf(c, ret[t].id).kind = "run" /\ ret[t].st = "OK"
    /\ JobOf(c, ret[u].id).kind = "run" /\ ret[u].st = "ERR"
    /\ ret[t].id < ret[u].id
    /\ \E i, j \in 1..Len(executed[c]) :
         i < j /\ executed[c][i].id = ret[t].id /\ executed[c][j].id = ret[u].id

\* C11 as stated: a job given to RunWithoutWaiting is put on the queue by
\* the call and is never executed on the thread that made the call.
C11_NeverOnCallingThread ==
  /\ [][\A c \in Contexts :
          ( /\ Len(submitted'[c]) = Len(submitted[c]) + 1
            /\ submitted'[c][Len(submitted'[c])].kind = "void" )
          => jobs_'[c] = Append(jobs_[c], submitted'[c][Len(submitted'[c])])
       ]_vars
  /\ [](\A c \in Contexts : \A i \in 1..Len(executed[c]) :
          JobOf(c, executed[c][i].id).kind = "void"
          => executed[c][i].by # JobOf(c, executed[c][i].id).caller)

\* C11, amended: a step in which a thread calls RunWithoutWaiting on the
\* dedicated thread of c puts the job at the back of the queue of c and does
\* nothing else: the job is not executed within the call, no dedicated thread
\* moves, and the caller does not enter a wait.  The job is executed by the
\* dedicated thread of c only (which is the caller when that thread made the
\* call from inside a job).
C11_RunWithoutWaitingEnqueuesOnly ==
  /\ [][\A c \in Contexts :
          ( /\ Len(submitted'[c]) = Len(submitted[c]) + 1
            /\ submitted'[c][Len(submitted'[c])].kind = "void" )
          => /\ jobs_' = [jobs_ EXCEPT ![c] =
                   Append(@, submitted'[c][Len(submitted'[c])])]
             /\ executed' = executed
             /\ wpc' = wpc /\ wjob' = wjob
             /\ rpc' = rpc /\ done' = done /\ ret' = ret
       ]_vars
  /\ [](\A c \in Contexts : \A i \in 1..Len(executed[c]) :
          JobOf(c, executed[c][i].id).kind = "void"
          => executed[c][i].by = WorkerOf(c))

\* C11 witness: a thread has given two jobs to RunWithoutWaiting on a context
\* whose dedicated thread is still inside an earlier job; both are on the
\* queue, none has begun.
C11_Witness ==
  \E c \in Contexts : \E t \in PlainThreads :
    /\ wpc[c] = "job"
    /\ Len(jobs_[c]) = 2
    /\ \A i \in 1..2 : jobs_[c][i].kind = "void" /\ jobs_[c][i].caller = t
    /\ \A i \in 1..Len(executed[c]) : executed[c][i].id < jobs_[c][1].id

\* --------------------------------------------------------- SwitchContext
\* Line 449: new_context_obj && (old_context_obj == new_context_obj)
SameContextNever(old, new) == FALSE
SameContext(old, new) == new # None /\ old = new

\* SwitchContext(saved_context, new_context), lines 434-451, called by thread t:
\* new is new_context.context_object (None: a binding without a GlContext, as
\* ExitContext(nullptr) passes), save tells whether saved_context is given.
\* EnterContext(saved) of context c is SwitchContext(saved, c);
\* ExitContext(saved) is SwitchContext(nullptr, *saved).
\* (old_context_obj and new_context_obj are locals: sold and snew keep them
\* after a return at line 450 or from lines 465-471.)
SwitchContextCallSavesLate(t, save, new) ==
  /\ spc[t] = "idle"
  /\ saved_context' = [saved_context EXCEPT ![t] =
        IF save /\ ~SameContext(current[t], new) THEN current[t] ELSE @]
  /\ sold' = [sold EXCEPT ![t] = current[t]]
  /\ snew' = [snew EXCEPT ![t] = new]
  /\ IF SameContext(current[t], new)
     THEN /\ sret' = [sret EXCEPT ![t] = "OK"]
          /\ UNCHANGED spc
     ELSE /\ spc' = [spc EXCEPT ![t] =
                IF current[t] # None THEN "unbind"
                ELSE IF new # None THEN "lock" ELSE "bindnone"]
          /\ UNCHANGED sret
  /\ UNCHANGED <<context_use_mutex_, current, native, thread_>>
SwitchContextCall(t, save, new) ==
  /\ spc[t] = "idle"
  /\ saved_context' = [saved_context EXCEPT ![t] = IF save THEN current[t] ELSE @]
  /\ sold' = [sold EXCEPT ![t] = current[t]]
  /\ snew' = [snew EXCEPT ![t] = new]
  /\ IF SameContext(current[t], new)
     THEN \* line 449-450: already current
          /\ sret' = [sret EXCEPT ![t] = "OK"]
          /\ UNCHANGED spc
     ELSE /\ spc' = [spc EXCEPT ![t] =
                IF current[t] # None THEN "unbind"
                ELSE IF new # None THEN "lock" ELSE "bindnone"]
          /\ UNCHANGED sret
  /\ UNCHANGED <<context_use_mutex_, current, native, thread_>>

\* SwitchContext called from outside SwitchContextAndRun (EnterContext and
\* ExitContext called by the thread's own code).
SwitchContext(t, save, new) ==
  /\ SwitchContextCall(t, save, new)
  /\ UNCHANGED nonSwitchVars

\* Line 458: MP_RETURN_IF_ERROR(SetCurrentContextBinding({})); the platform
\* call succeeds or fails (ok).
SwitchContextUnbindGivesUp(t, ok) ==
  /\ spc[t] = "unbind"
  /\ IF ok
     THEN /\ native' = [native EXCEPT ![t] = None]
          /\ spc' = [spc EXCEPT ![t] = "unlock"]
          /\ UNCHANGED <<sret, sold, snew, context_use_mutex_, current>>
     ELSE /\ sret' = [sret EXCEPT ![t] = "ERR"]
          /\ spc' = [spc EXCEPT ![t] = "idle"]
          /\ sold' = [sold EXCEPT ![t] = None]
          /\ snew' = [snew EXCEPT ![t] = None]
          /\ context_use_mutex_' = [context_use_mutex_ EXCEPT ![sold[t]] = None]
          /\ current' = [current EXCEPT ![t] = None]
          /\ UNCHANGED native
  /\ UNCHANGED saved_context
  /\ UNCHANGED <<thread_, nonSwitchVars>>
SwitchContextUnbind(t, ok) ==
  /\ spc[t] = "unbind"
  /\ IF ok
     THEN /\ native' = [native EXCEPT ![t] = None]
          /\ spc' = [spc EXCEPT ![t] = "unlock"]
          /\ UNCHANGED <<sret, sold, snew>>
     ELSE /\ sret' = [sret EXCEPT ![t] = "ERR"]
          /\ spc' = [spc EXCEPT ![t] = "idle"]
          /\ sold' = [sold EXCEPT ![t] = None]
          /\ snew' = [snew EXCEPT ![t] = None]
          /\ UNCHANGED native
  /\ UNCHANGED <<context_use_mutex_, current, saved_context>>
  /\ UNCHANGED <<thread_, nonSwitchVars>>

\* Line 459: old_context_obj->context_use_mutex_.Unlock();
SwitchContextUnlockKeeps(t) ==
  /\ spc[t] = "unlock"
  /\ spc' = [spc EXCEPT ![t] = "reset"]
  /\ UNCHANGED <<context_use_mutex_, current, native, sold, snew, saved_context, sret>>
  /\ UNCHANGED <<thread_, nonSwitchVars>>
SwitchContextUnlock(t) ==
  /\ spc[t] = "unlock"
  /\ context_use_mutex_' = [context_use_mutex_ EXCEPT ![sold[t]] = None]
  /\ spc' = [spc EXCEPT ![t] = "reset"]
  /\ UNCHANGED <<current, native, sold, snew, saved_context, sret>>
  /\ UNCHANGED <<thread_, nonSwitchVars>>

\* Line 460: CurrentContext().reset(); then lines 463 and 472.
SwitchContextResetKeeps(t) ==
  /\ spc[t] = "reset"
  /\ sold' = [sold EXCEPT ![t] = None]
  /\ spc' = [spc EXCEPT ![t] = IF snew[t] # None THEN "lock" ELSE "bindnone"]
  /\ UNCHANGED <<context_use_mutex_, current, native, snew, saved_context, sret>>
  /\ UNCHANGED <<thread_, nonSwitchVars>>
SwitchContextReset(t) ==
  /\ spc[t] = "reset"
  /\ current' = [current EXCEPT ![t] = None]
  /\ sold' = [sold EXCEPT ![t] = None]
  /\ spc' = [spc EXCEPT ![t] = IF snew[t] # None THEN "lock" ELSE "bindnone"]
  /\ UNCHANGED <<context_use_mutex_, native, snew, saved_context, sret>>
  /\ UNCHANGED <<thread_, nonSwitchVars>>

\* Line 464: new_context_obj->context_use_mutex_.Lock(); blocks while the
\* mutex is held.
SwitchContextNoLock(t) ==
  /\ spc[t] = "lock"
  /\ spc' = [spc EXCEPT ![t] = "bind"]
  /\ UNCHANGED <<context_use_mutex_, current, native, sold, snew, saved_context, sret>>
  /\ UNCHANGED <<thread_, nonSwitchVars>>
SwitchContextLock(t) ==
  /\ spc[t] = "lock"
  /\ context_use_mutex_[snew[t]] = None
  /\ context_use_mutex_' = [context_use_mutex_ EXCEPT ![snew[t]] = t]
  /\ spc' = [spc EXCEPT ![t] = "bind"]
  /\ UNCHANGED <<current, native, sold, snew, saved_context, sret>>
  /\ UNCHANGED <<thread_, nonSwitchVars>>

\* Lines 465-471: bind the thread to the new context; record it as current, or
\* on failure give the mutex back; return the status.
SwitchContextBindKeepsLock(t, ok) ==
  /\ spc[t] = "bind"
  /\ IF ok
     THEN /\ native' = [native EXCEPT ![t] = snew[t]]
          /\ current' = [current EXCEPT ![t] = snew[t]]
     ELSE UNCHANGED <<native, current>>
  /\ sret' = [sret EXCEPT ![t] = IF ok THEN "OK" ELSE "ERR"]
  /\ spc' = [spc EXCEPT ![t] = "idle"]
  /\ UNCHANGED <<context_use_mutex_, sold, snew, saved_context>>
  /\ UNCHANGED <<thread_, nonSwitchVars>>
SwitchContextBind(t, ok) ==
  /\ spc[t] = "bind"
  /\ IF ok
     THEN /\ native' = [native EXCEPT ![t] = snew[t]]
          /\ current' = [current EXCEPT ![t] = snew[t]]
          /\ UNCHANGED context_use_mutex_
     ELSE /\ context_use_mutex_' = [context_use_mutex_ EXCEPT ![snew[t]] = None]
          /\ UNCHANGED <<native, current>>
  /\ sret' = [sret EXCEPT ![t] = IF ok THEN "OK" ELSE "ERR"]
  /\ spc' = [spc EXCEPT ![t] = "idle"]
  /\ UNCHANGED <<sold, snew, saved_context>>
  /\ UNCHANGED <<thread_, nonSwitchVars>>

\* Line 473: return SetCurrentContextBinding(new_context), new_context without
\* a GlContext object.
SwitchContextBindNone(t, ok) ==
  /\ spc[t] = "bindnone"
  /\ sret' = [sret EXCEPT ![t] = IF ok THEN "OK" ELSE "ERR"]
  /\ spc' = [spc EXCEPT ![t] = "idle"]
  /\ UNCHANGED <<context_use_mutex_, current, native, sold, snew, saved_context>>
  /\ UNCHANGED <<thread_, nonSwitchVars>>

\* The threads that call SwitchContext: those that are no dedicated thread.
SwitchThreads == PlainThreads

SwitchNext ==
  \/ \E t \in SwitchThreads, save \in BOOLEAN, new \in Contexts \cup {None} :
       SwitchContext(t, save, new)
  \/ \E t \in SwitchThreads, ok \in BOOLEAN : SwitchContextUnbind(t, ok)
  \/ \E t \in SwitchThreads : SwitchContextUnlock(t)
  \/ \E t \in SwitchThreads : SwitchContextReset(t)
  \/ \E t \in SwitchThreads : SwitchContextLock(t)
  \/ \E t \in SwitchThreads, ok \in BOOLEAN : SwitchContextBind(t, ok)
  \/ \E t \in SwitchThreads, ok \in BOOLEAN : SwitchContextBindNone(t, ok)

SpecSwitch == InitNoThread /\ [][SwitchNext]_vars

\* ------------------------------------------------- claims: the hand-off
\* C3: for every context, at most one thread is bound to it, and a thread
\* bound to it holds its context_use_mutex_.
C3_UseLockExclusive ==
  \A c \in Contexts :
    /\ Cardinality({t \in Threads : native[t] = c}) <= 1
    /\ \A t \in Threads : native[t] = c => context_use_mutex_[c] = t

\* A thread is bound to a context and holds its use-lock while another thread
\* is in SwitchContext, blocked on that lock.
C3_Witness ==
  \E c \in Contexts : \E t, u \in Threads :
    /\ t # u
    /\ native[t] = c /\ context_use_mutex_[c] = t
    /\ spc[u] = "lock" /\ snew[u] = c

\* The use-locks thread t holds.
HeldBy(t) == {c \in Contexts : context_use_mutex_[c] = t}

\* C15: a step in which a thread calls SwitchContext with a target that is
\* already its current context returns OK within the step and leaves every
\* use-lock, every native binding and every current-context record as it was.
C15_SameContextNoOp ==
  [][\A t \in Threads :
       ( /\ spc[t] = "idle"
         /\ <<spc[t], sold[t], snew[t], sret[t], saved_context[t]>>
              # <<spc'[t], sold'[t], snew'[t], sret'[t], saved_context'[t]>>
         /\ snew'[t] # None /\ snew'[t] = current[t] )
       => /\ spc'[t] = "idle"
          /\ sret'[t] = "OK"
          /\ context_use_mutex_' = context_use_mutex_
          /\ native' = native
          /\ current' = current
    ]_vars

\* C15 witness: a thread bound to a context, holding its use-lock, has called
\* SwitchContext(&saved, that context) and is back.
C15_Witness ==
  \E t \in Threads : \E c \in Contexts :
    /\ spc[t] = "idle" /\ sold[t] = c /\ snew[t] = c /\ saved_context[t] = c
    /\ current[t] = c /\ native[t] = c /\ context_use_mutex_[c] = t
    /\ sret[t] = "OK"

\* C16: a step in which SwitchContext fails to bind the thread to the target
\* returns the error and leaves the target's use-lock free, the thread
\* holding no use-lock and its current-context record empty.
C16_BindFailure ==
  [][\A t \in Threads :
       (spc[t] = "bind" /\ spc'[t] = "idle" /\ native'[t] # snew[t])
       => /\ sret'[t] = "ERR"
          /\ context_use_mutex_[snew[t]] = t
          /\ context_use_mutex_'[snew[t]] = None
          /\ \A c \in Contexts : context_use_mutex_'[c] # t
          /\ current'[t] = None
    ]_vars

\* C16 witness: a thread that was in context x failed to bind to context y:
\* it is back with the error, in no context, and holds neither use-lock.
C16_Witness ==
  \E t \in Threads : \E x, y \in Contexts :
    /\ x # y
    /\ spc[t] = "idle" /\ sret[t] = "ERR"
    /\ saved_context[t] = x /\ snew[t] = y /\ sold[t] = None
    /\ current[t] = None /\ HeldBy(t) = {}

\* C17: a thread that is about to take (or is blocked on) a use-lock in
\* SwitchContext holds no use-lock; so no two threads each wait for a
\* use-lock the other holds.
C17_NoLockHeldWhileLocking ==
  /\ \A t \in Threads : spc[t] = "lock" => HeldBy(t) = {}
  /\ ~ \E t, u \in Threads :
        /\ t # u
        /\ spc[t] = "lock" /\ context_use_mutex_[snew[t]] = u
        /\ spc[u] = "lock" /\ context_use_mutex_[snew[u]] = t

\* C17 witness: one thread is on its way from context x to context y while
\* another is on its way from y to x, both at the Lock.
C17_Witness ==
  \E t, u \in Threads : \E x, y \in Contexts :
    /\ t # u /\ x # y
    /\ spc[t] = "lock" /\ saved_context[t] = x /\ snew[t] = y
    /\ spc[u] = "lock" /\ saved_context[u] = y /\ snew[u] = x

\* C18 as stated: in every state a thread's current-context record names
\* context c if and only if the thread holds the use-lock of c.
C18_RecordIffLockAlways ==
  \A t \in Threads : \A c \in Contexts :
    current[t] = c <=> context_use_mutex_[c] = t

\* C18, amended: outside SwitchContext a thread's current-context record
\* names c if and only if the thread holds the use-lock of c.  Inside, the
\* record names a context whose lock the thread no longer holds only between
\* the Unlock and the reset that follows it, and the thread holds a lock its
\* record does not name only between the Lock and the binding that follows.
C18_RecordIffLockAtRest ==
  \A t \in Threads : \A c \in Contexts :
    /\ spc[t] = "idle" => (current[t] = c <=> context_use_mutex_[c] = t)
    /\ (current[t] = c /\ context_use_mutex_[c] # t) => spc[t] = "reset"
    /\ (context_use_mutex_[c] = t /\ current[t] # c) => spc[t] = "bind"

\* C18 witness: a thread has released the use-lock of its context and another
\* thread has taken it, while the first thread's record still names the
\* context.
C18_Witness ==
  \E t, u \in Threads : \E c \in Contexts :
    /\ t # u
    /\ spc[t] = "reset" /\ current[t] = c
    /\ context_use_mutex_[c] = u

\* ----------------------------------------------------------- sync points
\* A sync point object: kind "finish" (GlFinishSyncPoint, count is its
\* gl_finish_count_) or "fence" (GlFenceSyncPoint, sync_ tells whether sync_ is
\* non-null, fence is the state of the GL sync object it made: "unsignaled",
\* "signaled", "deleted" or "deleted twice").
FreeTokenId == CHOOSE i \in TokenIds : tokens[i].kind = "none"

\* GlFinishSyncPoint(gl_context): gl_finish_count_(gl_context_->gl_finish_count())
CreateFinishSyncPointAhead(c) ==
  /\ \E i \in TokenIds : tokens[i].kind = "none"
  /\ tokens' = [tokens EXCEPT ![FreeTokenId] =
        [kind |-> "finish", ctx |-> c, count |-> gl_finish_count_[c] + 1,
         sync_ |-> FALSE, fence |-> "none"]]
  /\ UNCHANGED <<gl_finish_count_, syncs_, lastReady, addedSince>>
  /\ UNCHANGED nonSyncVars
CreateFinishSyncPoint(c) ==
  /\ \E i \in TokenIds : tokens[i].kind = "none"
  /\ tokens' = [tokens EXCEPT ![FreeTokenId] =
        [kind |-> "finish", ctx |-> c, count |-> gl_finish_count_[c],
         sync_ |-> FALSE, fence |-> "none"]]
  /\ UNCHANGED <<gl_finish_count_, syncs_, lastReady, addedSince>>
  /\ UNCHANGED nonSyncVars

\* GlFenceSyncPoint(gl_context): sync_ = glFenceSync(...) in a job on the context.
CreateFenceSyncPoint(c) ==
  /\ \E i \in TokenIds : tokens[i].kind = "none"
  /\ tokens' = [tokens EXCEPT ![FreeTokenId] =
        [kind |-> "fence", ctx |-> c, count |-> 0,
         sync_ |-> TRUE, fence |-> "unsignaled"]]
  /\ UNCHANGED <<gl_finish_count_, syncs_, lastReady, addedSince>>
  /\ UNCHANGED nonSyncVars

\* The GPU reaches the fence of sync point i.
FenceSignaled(i) ==
  /\ tokens[i].fence = "unsignaled"
  /\ tokens' = [tokens EXCEPT ![i].fence = "signaled"]
  /\ UNCHANGED <<gl_finish_count_, syncs_, lastReady, addedSince>>
  /\ UNCHANGED nonSyncVars

\* Line 497: ++gl_finish_count_, the value the counter is left with.
IncrementTwice(count) == count + 2
Increment(count) == count + 1

\* GlContext::GlFinishCalled: ++gl_finish_count_ (a glFinish some caller made).
GlFinishCalled(c) ==
  /\ gl_finish_count_[c] < MaxFinish
  /\ gl_finish_count_' = [gl_finish_count_ EXCEPT ![c] = Increment(@)]
  /\ UNCHANGED <<tokens, syncs_, lastReady, addedSince>>
  /\ UNCHANGED nonSyncVars

\* glClientWaitSync(sync_, 0, timeout) on the GL sync object.
ClientWaitSync(fence) ==
  CASE fence = "signaled" -> "GL_ALREADY_SIGNALED"
    [] fence = "unsignaled" -> "GL_TIMEOUT_EXPIRED"
    [] OTHER -> "GL_WAIT_FAILED"

\* IsReady() of one sync point, counts being gl_finish_count_: the answer and
\* the object afterwards.
\* GlFinishSyncPoint::IsReady, lines 511-513; GlFenceSyncPoint::IsReady, 559-572.
FenceIsReadyKeepsSync(tok) ==
  IF ~tok.sync_ THEN [ready |-> TRUE, tok |-> tok]
  ELSE IF ClientWaitSync(tok.fence) = "GL_ALREADY_SIGNALED"
       THEN [ready |-> TRUE, tok |-> DeleteSync(tok)]
       ELSE [ready |-> FALSE, tok |-> tok]
FenceIsReady(tok) ==
  IF ~tok.sync_ THEN [ready |-> TRUE, tok |-> tok]
  ELSE IF ClientWaitSync(tok.fence) = "GL_ALREADY_SIGNALED"
       THEN [ready |-> TRUE, tok |-> [DeleteSync(tok) EXCEPT !.sync_ = FALSE]]
       ELSE [ready |-> FALSE, tok |-> tok]
FinishIsReady(tok, counts) ==
  [ready |-> counts[tok.ctx] > tok.count, tok |-> tok]
SyncPointIsReady(tok, counts) ==
  IF tok.kind = "finish" THEN FinishIsReady(tok, counts) ELSE FenceIsReady(tok)

\* IsReady() called on sync point i.
IsReady(i) ==
  /\ tokens[i].kind # "none"
  /\ LET r == SyncPointIsReady(tokens[i], gl_finish_count_) IN
       /\ tokens' = [tokens EXCEPT ![i] = r.tok]
       /\ lastReady' = [lastReady EXCEPT ![i] = r.ready]
  /\ UNCHANGED <<gl_finish_count_, syncs_, addedSince>>
  /\ UNCHANGED nonSyncVars

\* Wait() called on sync point i.  GlFinishSyncPoint::Wait, lines 507-509, is
\* WaitForGlFinishCountPast(gl_finish_count_) seen from a single caller: one
\* glFinish is recorded unless the count is already past.  GlFenceSyncPoint::
\* Wait, lines 540-551: the client wait ends with the fence signaled (ok) or
\* fails.
WaitCounts(tok, counts) ==
  IF tok.kind = "finish" /\ counts[tok.ctx] <= tok.count
  THEN [counts EXCEPT ![tok.ctx] = tok.count + 1]
  ELSE counts
WaitToken(tok, ok) ==
  IF tok.kind = "fence" /\ tok.sync_ /\ tok.fence # "deleted" /\ ok
  THEN [DeleteSync(tok) EXCEPT !.sync_ = FALSE]
  ELSE tok
Wait(i, ok) ==
  /\ tokens[i].kind # "none"
  /\ WaitCounts(tokens[i], gl_finish_count_)[tokens[i].ctx] <= MaxFinish
  /\ tokens' = [tokens EXCEPT ![i] = WaitToken(@, ok)]
  /\ gl_finish_count_' = WaitCounts(tokens[i], gl_finish_count_)
  /\ UNCHANGED <<syncs_, lastReady, addedSince>>
  /\ UNCHANGED nonSyncVars

\* GlMultiSyncPoint::Add(new_sync), lines 578-586.
RECURSIVE AddSync(_, _, _)
AddSyncMovesToEnd(syncs, new, toks) ==
  SelectSeq(syncs, LAMBDA j : toks[j].ctx # toks[new].ctx) \o <<new>>
AddSyncAppends(syncs, new, toks) == Append(syncs, new)
AddSync(syncs, new, toks) ==
  IF syncs = <<>> THEN <<new>>
  ELSE IF toks[Head(syncs)].ctx = toks[new].ctx
       THEN <<new>> \o Tail(syncs)
       ELSE <<Head(syncs)>> \o AddSync(Tail(syncs), new, toks)

MultiAdd(i) ==
  /\ tokens[i].kind # "none"
  /\ syncs_' = AddSync(syncs_, i, tokens)
  /\ addedSince' = TRUE
  /\ UNCHANGED <<gl_finish_count_, tokens, lastReady>>
  /\ UNCHANGED nonSyncVars

\* GlMultiSyncPoint::Wait, lines 588-594: Wait() on every sync point held, in
\* order, then syncs_.clear().  failed: the fences whose client wait fails.
WaitAllFirst(syncs, toks, counts, failed) ==
  IF syncs = <<>> THEN [toks |-> toks, counts |-> counts]
  ELSE [toks |-> [toks EXCEPT ![Head(syncs)] = WaitToken(@, Head(syncs) \notin failed)],
        counts |-> WaitCounts(toks[Head(syncs)], counts)]
RECURSIVE WaitAll(_, _, _, _)
WaitAll(syncs, toks, counts, failed) ==
  IF syncs = <<>> THEN [toks |-> toks, counts |-> counts]
  ELSE WaitAll(Tail(syncs),
               [toks EXCEPT ![Head(syncs)] = WaitToken(@, Head(syncs) \notin failed)],
               WaitCounts(toks[Head(syncs)], counts), failed)

MultiWait(failed) ==
  /\ \A i \in failed : tokens[i].kind = "fence" /\ \E k \in 1..Len(syncs_) : syncs_[k] = i
  /\ LET r == WaitAll(syncs_, tokens, gl_finish_count_, failed) IN
       /\ \A c \in Contexts : r.counts[c] <= MaxFinish
       /\ tokens' = r.toks
       /\ gl_finish_count_' = r.counts
  /\ syncs_' = <<>>
  /\ UNCHANGED <<lastReady, addedSince>>
  /\ UNCHANGED nonSyncVars

\* GlMultiSyncPoint::WaitOnGpu, lines 596-601: glWaitSync for every fence held;
\* nothing is removed.
MultiWaitOnGpu ==
  /\ syncs_ # <<>>
  /\ UNCHANGED syncVars
  /\ UNCHANGED nonSyncVars

\* GlMultiSyncPoint::IsReady, lines 603-609: remove_if calls IsReady() once on
\* every sync point held, in order, and erases those that answer true.
IsReadyAllClears(syncs, toks, counts, answers) ==
  [kept |-> <<>>, toks |-> toks, answers |-> answers]
RECURSIVE IsReadyAll(_, _, _, _)
IsReadyAll(syncs, toks, counts, answers) ==
  IF syncs = <<>> THEN [kept |-> <<>>, toks |-> toks, answers |-> answers]
  ELSE LET i == Head(syncs)
           r == SyncPointIsReady(toks[i], counts)
           rest == IsReadyAll(Tail(syncs), [toks EXCEPT ![i] = r.tok], counts,
                              [answers EXCEPT ![i] = r.ready])
       IN [kept |-> IF r.ready THEN rest.kept ELSE <<i>> \o rest.kept,
           toks |-> rest.toks, answers |-> rest.answers]

MultiIsReady ==
  /\ LET r == IsReadyAll(syncs_, tokens, gl_finish_count_, lastReady) IN
       /\ syncs_' = r.kept
       /\ tokens' = r.toks
       /\ lastReady' = [r.answers EXCEPT ![0] = (r.kept = <<>>)]
  /\ addedSince' = FALSE
  /\ UNCHANGED gl_finish_count_
  /\ UNCHANGED nonSyncVars

SyncNext ==
  \/ \E c \in Contexts : CreateFinishSyncPoint(c)
  \/ \E c \in Contexts : CreateFenceSyncPoint(c)
  \/ \E i \in TokenIds : FenceSignaled(i)
  \/ \E c \in Contexts : GlFinishCalled(c)
  \/ \E i \in TokenIds : IsReady(i)
  \/ \E i \in TokenIds, ok \in BOOLEAN : Wait(i, ok)
  \/ \E i \in TokenIds : MultiAdd(i)
  \/ \E failed \in SUBSET TokenIds : MultiWait(failed)
  \/ MultiWaitOnGpu
  \/ MultiIsReady

SpecSync == Init /\ [][SyncNext]_vars

\* ------------------------------------------------- claims: sync points
\* C7 as stated: for every sync point, the aggregate included, once IsReady()
\* has returned true, every later IsReady() returns true, whatever was done
\* in between.
C7_IsReadyMonotonicAll ==
  [][\A i \in 0..MaxTokens : lastReady[i] => lastReady'[i]]_vars

\* C7, amended: once IsReady() of a finish-based or fence-based sync point has
\* returned true, every later IsReady() of it returns true; the same holds for
\* the aggregate as long as no sync point was added to it since that answer.
C7_IsReadyMonotonic ==
  [][ /\ \A i \in TokenIds : lastReady[i] => lastReady'[i]
      /\ (lastReady[0] /\ ~addedSince) => lastReady'[0] ]_vars

\* IsReady() has returned true for a fence-based sync point (whose fence it
\* deleted), for a finish-based one, and for the aggregate.
C7_Witness ==
  \E i, j \in TokenIds :
    /\ tokens[i].kind = "fence" /\ lastReady[i] /\ tokens[i].fence = "deleted"
    /\ tokens[j].kind = "finish" /\ lastReady[j]
    /\ lastReady[0] /\ ~addedSince

\* C8: the aggregate never holds two sync points of the same context.
C8_AggregateUnique ==
  \A k, l \in 1..Len(syncs_) :
    k # l => tokens[syncs_[k]].ctx # tokens[syncs_[l]].ctx

\* The aggregate holds a sync point of every context, the first of which is
\* newer than a sync point of the same context that it does not hold.
C8_Witness ==
  /\ Len(syncs_) = NumContexts
  /\ \E i \in TokenIds :
       /\ i < syncs_[1]
       /\ tokens[i].ctx = tokens[syncs_[1]].ctx
       /\ \A k \in 1..Len(syncs_) : syncs_[k] # i

\* Sync point i is held by the aggregate.
Held(i) == \E k \in 1..Len(syncs_) : syncs_[k] = i

\* C22: Wait() of the aggregate calls Wait() on every sync point it holds (a
\* finish-based one leaves its context's gl_finish_count_ past its count, a
\* fence-based one whose client wait succeeds has given up its fence), leaves
\* the sync points it does not hold alone and leaves the aggregate empty; on
\* an empty aggregate it changes nothing.
C22_MultiWaitWaitsAll ==
  /\ [](\A failed \in SUBSET TokenIds :
         LET r == WaitAll(syncs_, tokens, gl_finish_count_, failed) IN
           /\ \A i \in TokenIds :
                IF Held(i)
                THEN /\ tokens[i].kind = "finish"
                          => r.counts[tokens[i].ctx] > tokens[i].count
                     /\ (tokens[i].kind = "fence" /\ i \notin failed)
                          => ~r.toks[i].sync_
                ELSE r.toks[i] = tokens[i]
           /\ syncs_ = <<>> => r = [toks |-> tokens, counts |-> gl_finish_count_])
  /\ [][\A failed \in SUBSET TokenIds :
          MultiWait(failed)
          => /\ syncs_' = <<>>
             /\ \A i \in TokenIds :
                  IF Held(i)
                  THEN /\ tokens[i].kind = "finish"
                            => gl_finish_count_'[tokens[i].ctx] > tokens[i].count
                       /\ (tokens[i].kind = "fence" /\ i \notin failed)
                            => ~tokens'[i].sync_
                  ELSE tokens'[i] = tokens[i]
       ]_vars

\* C22 witness: the aggregate is empty after a Wait() that waited on a finish-
\* based sync point of one context and a fence-based one of another (no
\* IsReady() was called on either, nor on the aggregate since they were added).
C22_Witness ==
  /\ syncs_ = <<>> /\ addedSince
  /\ \E i, j \in TokenIds :
       /\ tokens[i].kind = "finish" /\ gl_finish_count_[tokens[i].ctx] > tokens[i].count
       /\ tokens[j].kind = "fence" /\ ~tokens[j].sync_ /\ tokens[j].fence = "deleted"
       /\ tokens[i].ctx # tokens[j].ctx
       /\ ~lastReady[i] /\ ~lastReady[j]

\* IsReady() of sync point i would answer true now.
ReadyNow(i) ==
  IF tokens[i].kind = "finish"
  THEN gl_finish_count_[tokens[i].ctx] > tokens[i].count
  ELSE ~tokens[i].sync_ \/ tokens[i].fence = "signaled"

\* C23: IsReady() of the aggregate removes exactly the sync points it holds
\* whose own IsReady() is true, keeps the others in their order, and returns
\* true if and only if none is left.
C23_MultiIsReadyPrunes ==
  /\ [](IsReadyAll(syncs_, tokens, gl_finish_count_, lastReady).kept
          = SelectSeq(syncs_, LAMBDA i : ~ReadyNow(i)))
  /\ [][MultiIsReady
          => /\ syncs_' = SelectSeq(syncs_, LAMBDA i : ~ReadyNow(i))
             /\ lastReady'[0] = (syncs_' = <<>>)
             /\ \A i \in TokenIds : Held(i) => lastReady'[i] = ReadyNow(i)
       ]_vars

\* C23 witness: IsReady() of the aggregate has just returned false, having
\* removed a sync point that was ready and kept one that is not.
C23_Witness ==
  /\ Len(syncs_) = 1 /\ ~addedSince /\ ~lastReady[0]
  /\ ~ReadyNow(syncs_[1]) /\ ~lastReady[syncs_[1]]
  /\ \E i \in TokenIds :
       /\ ~Held(i) /\ lastReady[i] /\ tokens[i].ctx # tokens[syncs_[1]].ctx
       /\ tokens[i].kind = "fence" /\ tokens[i].fence = "deleted"

\* C24: Add(new_sync) on the aggregate puts the new sync point in the place
\* of the one it holds for the same context, the number held unchanged, and
\* appends it if it holds none for that context; the sync points of other
\* contexts stay where they are.
C24_AddReplacesInPlace ==
  [][\A i \in TokenIds :
       MultiAdd(i)
       => IF \E k \in 1..Len(syncs_) : tokens[syncs_[k]].ctx = tokens[i].ctx
          THEN /\ Len(syncs_') = Len(syncs_)
               /\ \A k \in 1..Len(syncs_) :
                    syncs_'[k] = IF tokens[syncs_[k]].ctx = tokens[i].ctx
                                 THEN i ELSE syncs_[k]
          ELSE syncs_' = Append(syncs_, i)
    ]_vars

\* C24 witness: the aggregate holds sync points of two contexts, and the one
\* in the first place was added after the one in the second place, in the
\* place of an older sync point of its context.
C24_Witness ==
  /\ Len(syncs_) >= 2
  /\ syncs_[1] > syncs_[2]
  /\ \E i \in TokenIds :
       /\ i < syncs_[2] /\ ~Held(i)
       /\ tokens[i].ctx = tokens[syncs_[1]].ctx

\* ------------------------------------------- WaitForGlFinishCountPast
\* GlContext::GetCurrent, lines 491-493.
GetCurrent(t) == current[t]
\* GlContext::IsCurrent: the calling thread is the one bound to the context.
IsCurrentNever(c, t) == FALSE
IsCurrent(c, t) == GetCurrent(t) = c

\* assign_larger_value(var, target), lines 663-668: the value var is left with.
assign_value(var, target) == target
assign_larger_value(var, target) == IF var < target THEN target ELSE var

\* The test of lines 673 and 721: gl_finish_count_ is past count_to_pass.
PassedOrReached(count, count_to_pass) == count >= count_to_pass
Passed(count, count_to_pass) == count > count_to_pass

\* wait_for_gl_finish_cv_.SignalAll() of context c: the positions of the threads
\* afterwards.  A thread asleep in wait_for_gl_finish_cv_.Wait(&mutex_) of c
\* goes on to take mutex_ again.
SignalAllWakesNone(pcs, c) == pcs
SignalAll(pcs, c) ==
  [t \in Threads |-> IF pcs[t] = "sleep" /\ fctx[t] = c THEN "lock2" ELSE pcs[t]]

\* Line 733: other && other->gl_finish_count_ < other->gl_finish_count_target_
OtherNeedsFinishNever(o) == FALSE
OtherNeedsFinish(o) ==
  o # None /\ gl_finish_count_[o] < gl_finish_count_target_[o]

\* Thread t is inside a call of WaitForGlFinishCountPast.
InCall(t) == fcall[t] # fret[t]
\* finish_task runs on thread t inside its call (line 702) or, on a dedicated
\* thread, as the job the thread took from its queue: the context and the
\* count_to_pass the task captured.
FinishTaskContext(t) == IF InCall(t) THEN fctx[t] ELSE t
FinishTaskCount(t) == IF InCall(t) THEN fcount[t] ELSE wjob[t].count

\* The call of thread t returns (or the job finish_task of a dedicated thread
\* is over), pcs being the positions of the other threads after the step.  On
\* a dedicated thread the job that made the call is over too.  A finish_task
\* that RunWithoutWaiting runs on the calling thread (lines 412-415, inside
\* SwitchContextAndRun) returns into SwitchContextAndRun, line 370.
Finished(t, pcs) ==
  IF apc[t] = "run"
  THEN /\ fpc' = [pcs EXCEPT ![t] = "ran"]
       /\ UNCHANGED <<fret, wpc, wjob>>
  ELSE /\ fpc' = [pcs EXCEPT ![t] = "idle"]
       /\ fret' = [fret EXCEPT ![t] = fcall[t]]
       /\ IF t \in Contexts
          THEN /\ wpc' = [wpc EXCEPT ![t] = "get"]
               /\ wjob' = [wjob EXCEPT ![t] = NoJob]
          ELSE UNCHANGED <<wpc, wjob>>

\* Some thread gives the dedicated thread of context o a job that calls Wait()
\* on finish-based sync point i (GlContext::RunWithoutWaiting, lines 403-409).
SubmitWaitJobWithin(o, i, max) ==
  /\ ncalls < max
  /\ thread_[o]
  /\ tokens[i].kind = "finish"
  /\ ncalls' = ncalls + 1
  /\ jobs_' = [jobs_ EXCEPT ![o] = PutJob(@,
        [id |-> ncalls + 1, kind |-> "wait", caller |-> None, st |-> "OK",
         ctx |-> tokens[i].ctx, count |-> tokens[i].count])]
  /\ UNCHANGED <<wpc, wjob, gl_finish_count_, gl_finish_count_target_,
                 context_waiting_on_, mutex_, fpc, fctx, fcount, fother, fcall, fret>>
  /\ UNCHANGED nonFinishVars

SubmitWaitJob(o, i) == SubmitWaitJobWithin(o, i, MaxWaits)

\* ThreadBody, lines 123-128, of the dedicated thread of c: take the next job
\* and enter it.  A job is finish_task (line 718) or calls Wait() on a sync point.
FinishGetJob(c) ==
  /\ wpc[c] = "get"
  /\ jobs_[c] # <<>>
  /\ jobs_' = [jobs_ EXCEPT ![c] = GetJob(@).rest]
  /\ wpc' = [wpc EXCEPT ![c] = "job"]
  /\ wjob' = [wjob EXCEPT ![c] = GetJob(jobs_[c]).job]
  /\ IF GetJob(jobs_[c]).job.kind = "wait"
     THEN \* GlFinishSyncPoint::Wait, line 508
          /\ fpc' = [fpc EXCEPT ![WorkerOf(c)] = "call"]
          /\ fctx' = [fctx EXCEPT ![WorkerOf(c)] = GetJob(jobs_[c]).job.ctx]
          /\ fcount' = [fcount EXCEPT ![WorkerOf(c)] = GetJob(jobs_[c]).job.count]
          /\ fcall' = [fcall EXCEPT ![WorkerOf(c)] = GetJob(jobs_[c]).job.id]
          /\ fother' = [fother EXCEPT ![WorkerOf(c)] = None]
     ELSE /\ fpc' = [fpc EXCEPT ![WorkerOf(c)] = "ft_check"]
          /\ UNCHANGED <<fctx, fcount, fcall, fother>>
  /\ UNCHANGED <<gl_finish_count_, gl_finish_count_target_, context_waiting_on_, mutex_,
                 fret, ncalls>>
  /\ UNCHANGED nonFinishVars

\* A thread that is no dedicated thread calls Wait() on finish-based sync
\* point i: GlFinishSyncPoint::Wait, line 508.
WaitCallWithin(t, i, max) ==
  /\ t \in PlainThreads
  /\ fpc[t] = "idle"
  /\ ncalls < max
  /\ tokens[i].kind = "finish"
  /\ ncalls' = ncalls + 1
  /\ fpc' = [fpc EXCEPT ![t] = "call"]
  /\ fctx' = [fctx EXCEPT ![t] = tokens[i].ctx]
  /\ fcount' = [fcount EXCEPT ![t] = tokens[i].count]
  /\ fcall' = [fcall EXCEPT ![t] = ncalls + 1]
  /\ fother' = [fother EXCEPT ![t] = None]
  /\ UNCHANGED <<jobs_, wpc, wjob, gl_finish_count_, gl_finish_count_target_,
                 context_waiting_on_, mutex_, fret>>
  /\ UNCHANGED nonFinishVars

WaitCall(t, i) == WaitCallWithin(t, i, MaxWaits)

\* Line 673: if (gl_finish_count_ > count_to_pass) return;
WaitCheck(t) ==
  /\ fpc[t] = "call"
  /\ IF Passed(gl_finish_count_[fctx[t]], fcount[t])
     THEN Finished(t, fpc)
     ELSE /\ fpc' = [fpc EXCEPT ![t] = "lock1"]
          /\ UNCHANGED <<wpc, wjob, fret>>
  /\ UNCHANGED <<jobs_, gl_finish_count_, gl_finish_count_target_, context_waiting_on_,
                 mutex_, fctx, fcount, fother, fcall, ncalls>>
  /\ UNCHANGED nonFinishVars

\* absl::MutexLock lock(&mutex_) of context c by thread t, going on at `next`.
LockMutex(t, c, at, next) ==
  /\ fpc[t] = at
  /\ mutex_[c] = None
  /\ mutex_' = [mutex_ EXCEPT ![c] = t]
  /\ fpc' = [fpc EXCEPT ![t] = next]
  /\ UNCHANGED <<jobs_, wpc, wjob, gl_finish_count_, gl_finish_count_target_,
                 context_waiting_on_, fctx, fcount, fother, fcall, fret, ncalls>>
  /\ UNCHANGED nonFinishVars

\* Lines 680-683: wait_for_gl_finish_cv_.SignalAll(), and SignalAll() on the
\* condition variable of context_waiting_on_ if it is set: the positions of
\* the threads afterwards.
RaiseSignalsOwn(pcs, c) == SignalAll(pcs, c)
RaiseSignals(pcs, c) ==
  IF context_waiting_on_[c] # None
  THEN SignalAll(SignalAll(pcs, c), context_waiting_on_[c])
  ELSE SignalAll(pcs, c)

\* Line 678.
WaitLockTarget(t) == LockMutex(t, fctx[t], "lock1", "raise")

\* Lines 679-684 under mutex_, then lines 698 and 706-707: raise the target,
\* signal this context's condition variable and that of the context this one
\* is waiting on; then choose the path.
WaitRaiseTarget(t) ==
  LET c == fctx[t]
      woken == RaiseSignals(fpc, c)
  IN
  /\ fpc[t] = "raise"
  /\ gl_finish_count_target_' = [gl_finish_count_target_ EXCEPT ![c] =
        assign_larger_value(@, fcount[t] + 1)]
  /\ mutex_' = [mutex_ EXCEPT ![c] = None]
  /\ IF IsCurrent(c, t)
     THEN /\ fpc' = [woken EXCEPT ![t] = "ft_check"]
          /\ UNCHANGED fother
     ELSE /\ fother' = [fother EXCEPT ![t] = GetCurrent(t)]
          /\ fpc' = [woken EXCEPT ![t] =
                IF GetCurrent(t) # None THEN "note_lock" ELSE "enqueue"]
  /\ UNCHANGED <<jobs_, wpc, wjob, gl_finish_count_, context_waiting_on_,
                 fctx, fcount, fcall, fret, ncalls>>
  /\ UNCHANGED nonFinishVars

\* Line 711.
WaitLockOther(t) == LockMutex(t, fother[t], "note_lock", "note")

\* Lines 712-714: other->context_waiting_on_ = this, under other->mutex_.
WaitNoteOther(t) ==
  /\ fpc[t] = "note"
  /\ context_waiting_on_' = [context_waiting_on_ EXCEPT ![fother[t]] = fctx[t]]
  /\ mutex_' = [mutex_ EXCEPT ![fother[t]] = None]
  /\ fpc' = [fpc EXCEPT ![t] = "enqueue"]
  /\ UNCHANGED <<jobs_, wpc, wjob, gl_finish_count_, gl_finish_count_target_,
                 fctx, fcount, fother, fcall, fret, ncalls>>
  /\ UNCHANGED nonFinishVars

\* Line 718: RunWithoutWaiting(finish_task) on a context with a dedicated
\* thread (lines 403-409): PutJob.  finish_task captures count_to_pass; sched
\* notes the gl_finish_count_ of the context at this moment.
WaitEnqueue(t) ==
  /\ fpc[t] = "enqueue"
  /\ thread_[fctx[t]]
  /\ jobs_' = [jobs_ EXCEPT ![fctx[t]] = PutJob(@,
        [id |-> 0, kind |-> "finish", caller |-> t, st |-> "OK",
         ctx |-> fctx[t], count |-> fcount[t],
         sched |-> gl_finish_count_[fctx[t]]])]
  /\ fpc' = [fpc EXCEPT ![t] = "lock2"]
  /\ UNCHANGED <<wpc, wjob, gl_finish_count_, gl_finish_count_target_, context_waiting_on_,
                 mutex_, fctx, fcount, fother, fcall, fret, ncalls>>
  /\ UNCHANGED nonFinishVars

\* Lines 720 and 738, and the return of wait_for_gl_finish_cv_.Wait(&mutex_):
\* take mutex_ of this context.
WaitLockLoop(t) == LockMutex(t, fctx[t], "lock2", "loop")

\* Lines 721-722 under mutex_: leave the loop (the MutexLock scope ends), go
\* and call glFinish for `other` (line 733 unlocks), or go to sleep.
WaitLoopKeepsMutex(t) ==
  LET c == fctx[t]
      o == fother[t]
  IN
  /\ fpc[t] = "loop"
  /\ IF Passed(gl_finish_count_[c], fcount[t])
     THEN /\ mutex_' = [mutex_ EXCEPT ![c] = None]
          /\ IF o # None
             THEN /\ fpc' = [fpc EXCEPT ![t] = "clear_lock"]
                  /\ UNCHANGED <<wpc, wjob, fret>>
             ELSE Finished(t, fpc)
     ELSE /\ UNCHANGED <<wpc, wjob, fret>>
          /\ UNCHANGED mutex_
          /\ IF OtherNeedsFinish(o)
             THEN fpc' = [fpc EXCEPT ![t] = "coop_lock"]
             ELSE fpc' = [fpc EXCEPT ![t] = "wait"]
  /\ UNCHANGED <<jobs_, gl_finish_count_, gl_finish_count_target_, context_waiting_on_,
                 fctx, fcount, fother, fcall, ncalls>>
  /\ UNCHANGED nonFinishVars
WaitLoop(t) ==
  LET c == fctx[t]
      o == fother[t]
  IN
  /\ fpc[t] = "loop"
  /\ IF Passed(gl_finish_count_[c], fcount[t])
     THEN /\ mutex_' = [mutex_ EXCEPT ![c] = None]
          /\ IF o # None
             THEN /\ fpc' = [fpc EXCEPT ![t] = "clear_lock"]
                  /\ UNCHANGED <<wpc, wjob, fret>>
             ELSE Finished(t, fpc)
     ELSE /\ UNCHANGED <<wpc, wjob, fret>>
          /\ IF OtherNeedsFinish(o)
             THEN /\ mutex_' = [mutex_ EXCEPT ![c] = None]
                  /\ fpc' = [fpc EXCEPT ![t] = "coop_lock"]
             ELSE /\ fpc' = [fpc EXCEPT ![t] = "wait"]
                  /\ UNCHANGED mutex_
  /\ UNCHANGED <<jobs_, gl_finish_count_, gl_finish_count_target_, context_waiting_on_,
                 fctx, fcount, fother, fcall, ncalls>>
  /\ UNCHANGED nonFinishVars

\* Line 744: wait_for_gl_finish_cv_.Wait(&mutex_) releases mutex_ and sleeps.
WaitSleep(t) ==
  /\ fpc[t] = "wait"
  /\ mutex_' = [mutex_ EXCEPT ![fctx[t]] = None]
  /\ fpc' = [fpc EXCEPT ![t] = "sleep"]
  /\ UNCHANGED <<jobs_, wpc, wjob, gl_finish_count_, gl_finish_count_target_,
                 context_waiting_on_, fctx, fcount, fother, fcall, fret, ncalls>>
  /\ UNCHANGED nonFinishVars

\* Lines 735-736: glFinish(); other->GlFinishCalled() takes other->mutex_.
WaitLockCoop(t) == LockMutex(t, fother[t], "coop_lock", "coop_inc")

\* GlFinishCalled of `other`, lines 497-498; then line 738.
WaitCoopFinishCalledThenSleeps(t) ==
  /\ fpc[t] = "coop_inc"
  /\ gl_finish_count_' = [gl_finish_count_ EXCEPT ![fother[t]] = Increment(@)]
  /\ mutex_' = [mutex_ EXCEPT ![fother[t]] = None]
  /\ fpc' = [SignalAll(fpc, fother[t]) EXCEPT ![t] = "sleep"]
  /\ UNCHANGED <<jobs_, wpc, wjob, gl_finish_count_target_, context_waiting_on_,
                 fctx, fcount, fother, fcall, fret, ncalls>>
  /\ UNCHANGED nonFinishVars
WaitCoopFinishCalled(t) ==
  /\ fpc[t] = "coop_inc"
  /\ gl_finish_count_' = [gl_finish_count_ EXCEPT ![fother[t]] = Increment(@)]
  /\ mutex_' = [mutex_ EXCEPT ![fother[t]] = None]
  /\ fpc' = [SignalAll(fpc, fother[t]) EXCEPT ![t] = "lock2"]
  /\ UNCHANGED <<jobs_, wpc, wjob, gl_finish_count_target_, context_waiting_on_,
                 fctx, fcount, fother, fcall, fret, ncalls>>
  /\ UNCHANGED nonFinishVars

\* Line 750.
WaitLockClear(t) == LockMutex(t, fother[t], "clear_lock", "clear")

\* Lines 751-753: other->context_waiting_on_ = nullptr; return.
WaitClearOther(t) ==
  /\ fpc[t] = "clear"
  /\ context_waiting_on_' = [context_waiting_on_ EXCEPT ![fother[t]] = None]
  /\ mutex_' = [mutex_ EXCEPT ![fother[t]] = None]
  /\ Finished(t, fpc)
  /\ UNCHANGED <<jobs_, gl_finish_count_, gl_finish_count_target_,
                 fctx, fcount, fother, fcall, ncalls>>
  /\ UNCHANGED nonFinishVars

\* finish_task, lines 691-692: if (gl_finish_count_ == count_to_pass) ...
FinishTaskAlways(t) ==
  /\ fpc[t] = "ft_check"
  /\ fpc' = [fpc EXCEPT ![t] = "ft_lock"]
  /\ UNCHANGED <<wpc, wjob, fret>>
  /\ UNCHANGED <<jobs_, gl_finish_count_, gl_finish_count_target_, context_waiting_on_,
                 mutex_, fctx, fcount, fother, fcall, ncalls>>
  /\ UNCHANGED nonFinishVars
FinishTaskIfBelowTarget(t) ==
  /\ fpc[t] = "ft_check"
  /\ IF gl_finish_count_[FinishTaskContext(t)] < gl_finish_count_target_[FinishTaskContext(t)]
     THEN /\ fpc' = [fpc EXCEPT ![t] = "ft_lock"]
          /\ UNCHANGED <<wpc, wjob, fret>>
     ELSE Finished(t, fpc)
  /\ UNCHANGED <<jobs_, gl_finish_count_, gl_finish_count_target_, context_waiting_on_,
                 mutex_, fctx, fcount, fother, fcall, ncalls>>
  /\ UNCHANGED nonFinishVars
FinishTask(t) ==
  /\ fpc[t] = "ft_check"
  /\ IF gl_finish_count_[FinishTaskContext(t)] = FinishTaskCount(t)
     THEN /\ fpc' = [fpc EXCEPT ![t] = "ft_lock"]
          /\ UNCHANGED <<wpc, wjob, fret>>
     ELSE Finished(t, fpc)
  /\ UNCHANGED <<jobs_, gl_finish_count_, gl_finish_count_target_, context_waiting_on_,
                 mutex_, fctx, fcount, fother, fcall, ncalls>>
  /\ UNCHANGED nonFinishVars

\* finish_task, lines 693-694: glFinish(); GlFinishCalled() takes mutex_.
FinishTaskNoLock(t) ==
  /\ fpc[t] = "ft_lock"
  /\ fpc' = [fpc EXCEPT ![t] = "ft_inc"]
  /\ UNCHANGED <<jobs_, wpc, wjob, gl_finish_count_, gl_finish_count_target_,
                 context_waiting_on_, mutex_, fctx, fcount, fother, fcall, fret, ncalls>>
  /\ UNCHANGED nonFinishVars
FinishTaskLock(t) == LockMutex(t, FinishTaskContext(t), "ft_lock", "ft_inc")

\* GlFinishCalled, lines 497-498; finish_task is over (line 703 returns).
FinishTaskFinishCalled(t) ==
  LET c == FinishTaskContext(t) IN
  /\ fpc[t] = "ft_inc"
  /\ gl_finish_count_' = [gl_finish_count_ EXCEPT ![c] = Increment(@)]
  /\ mutex_' = [mutex_ EXCEPT ![c] = None]
  /\ Finished(t, SignalAll(fpc, c))
  /\ UNCHANGED <<jobs_, gl_finish_count_target_, context_waiting_on_,
                 fctx, fcount, fother, fcall, ncalls>>
  /\ UNCHANGED nonFinishVars

\* The next step of thread t inside the coordinator or its dedicated-thread loop.
FinishStep(t) ==
  \/ WaitCheck(t)
  \/ WaitLockTarget(t)
  \/ WaitRaiseTarget(t)
  \/ WaitLockOther(t)
  \/ WaitNoteOther(t)
  \/ WaitEnqueue(t)
  \/ WaitLockLoop(t)
  \/ WaitLoop(t)
  \/ WaitSleep(t)
  \/ WaitLockCoop(t)
  \/ WaitCoopFinishCalled(t)
  \/ WaitLockClear(t)
  \/ WaitClearOther(t)
  \/ FinishTask(t)
  \/ FinishTaskLock(t)
  \/ FinishTaskFinishCalled(t)
  \/ (t \in Contexts /\ FinishGetJob(t))

\* No finish-based sync point of context c holds its present count yet.
NewCount(c) ==
  \A i \in TokenIds : ~(tokens[i].kind = "finish" /\ tokens[i].ctx = c
                           /\ tokens[i].count = gl_finish_count_[c])

FinishNext ==
  \/ \E c \in Contexts : NewCount(c) /\ CreateFinishSyncPoint(c)
  \/ \E o \in Contexts, i \in TokenIds : SubmitWaitJob(o, i)
  \/ \E t \in PlainThreads, i \in TokenIds : WaitCall(t, i)
  \/ \E c \in Contexts : FinishGetJob(c)
  \/ \E t \in Threads : WaitCheck(t)
  \/ \E t \in Threads : WaitLockTarget(t)
  \/ \E t \in Threads : WaitRaiseTarget(t)
  \/ \E t \in Threads : WaitLockOther(t)
  \/ \E t \in Threads : WaitNoteOther(t)
  \/ \E t \in Threads : WaitEnqueue(t)
  \/ \E t \in Threads : WaitLockLoop(t)
  \/ \E t \in Threads : WaitLoop(t)
  \/ \E t \in Threads : WaitSleep(t)
  \/ \E t \in Threads : WaitLockCoop(t)
  \/ \E t \in Threads : WaitCoopFinishCalled(t)
  \/ \E t \in Threads : WaitLockClear(t)
  \/ \E t \in Threads : WaitClearOther(t)
  \/ \E t \in Threads : FinishTask(t)
  \/ \E t \in Threads : FinishTaskLock(t)
  \/ \E t \in Threads : FinishTaskFinishCalled(t)

SpecFinish == Init /\ [][FinishNext]_vars

\* Every thread that can take a step eventually takes one (the threads are
\* scheduled by the operating system; a dedicated thread keeps taking jobs).
SpecFinishFair == SpecFinish /\ \A t \in Threads : WF_vars(FinishStep(t))

\* The coordinator with one more Wait() call: with one finish-based sync
\* point for every count of a context (a second sync point made at the same
\* count gives Wait() the same context and count_to_pass), and with dedicated
\* threads that wait on sync points of later contexts only (two dedicated
\* threads waiting on each other are explored in SpecFinish).
RaiseNext ==
  \/ \E c \in Contexts : NewCount(c) /\ CreateFinishSyncPoint(c)
  \/ \E o \in Contexts, i \in TokenIds :
       tokens[i].ctx > o /\ SubmitWaitJobWithin(o, i, MaxRaiseWaits)
  \/ \E t \in PlainThreads, i \in TokenIds : WaitCallWithin(t, i, MaxRaiseWaits)
  \/ \E c \in Contexts : FinishGetJob(c)
  \/ \E t \in Threads : WaitCheck(t)
  \/ \E t \in Threads : WaitLockTarget(t)
  \/ \E t \in Threads : WaitRaiseTarget(t)
  \/ \E t \in Threads : WaitLockOther(t)
  \/ \E t \in Threads : WaitNoteOther(t)
  \/ \E t \in Threads : WaitEnqueue(t)
  \/ \E t \in Threads : WaitLockLoop(t)
  \/ \E t \in Threads : WaitLoop(t)
  \/ \E t \in Threads : WaitSleep(t)
  \/ \E t \in Threads : WaitLockCoop(t)
  \/ \E t \in Threads : WaitCoopFinishCalled(t)
  \/ \E t \in Threads : WaitLockClear(t)
  \/ \E t \in Threads : WaitClearOther(t)
  \/ \E t \in Threads : FinishTask(t)
  \/ \E t \in Threads : FinishTaskLock(t)
  \/ \E t \in Threads : FinishTaskFinishCalled(t)

SpecRaise == Init /\ [][RaiseNext]_vars

\* ------------------------------------------------- finish coordinator claims
\* C4: a Wait() on a finish-based sync point that has returned leaves the
\* owning context's gl_finish_count_ strictly greater than the count the sync
\* point captured, whichever thread made the call (gl_finish_count_ never
\* decreases, so this holds from the return on).
C4_WaitReturnsPastCount ==
  \A t \in Threads :
    (fcall[t] # 0 /\ fret[t] = fcall[t]) => gl_finish_count_[fctx[t]] > fcount[t]

\* C4 witness: a Wait() made by the owning context's own thread and a Wait()
\* made by another context's thread have both returned.
C4_Witness ==
  \E t1, t2 \in Threads :
    /\ fcall[t1] # 0 /\ fret[t1] = fcall[t1] /\ GetCurrent(t1) = fctx[t1]
    /\ fcall[t2] # 0 /\ fret[t2] = fcall[t2]
    /\ GetCurrent(t2) # None /\ GetCurrent(t2) # fctx[t2]

\* C1: when the dedicated thread of context a is inside Wait() on a finish
\* sync point of context b while the dedicated thread of b is inside Wait()
\* on a finish sync point of a, both calls return.
C1_TwoContextsBothReturn ==
  \A a, b \in Contexts :
    (a # b /\ InCall(WorkerOf(a)) /\ fctx[WorkerOf(a)] = b
           /\ InCall(WorkerOf(b)) /\ fctx[WorkerOf(b)] = a)
      ~> ~InCall(WorkerOf(a))

\* C1 witness: the two dedicated threads wait on each other's context, one of
\* them about to sleep while the other is in GlFinishCalled on its own context
\* for the sake of the first.
C1_Witness ==
  \E a, b \in Contexts :
    /\ a # b
    /\ InCall(WorkerOf(a)) /\ fctx[WorkerOf(a)] = b /\ fpc[WorkerOf(a)] = "coop_inc"
    /\ InCall(WorkerOf(b)) /\ fctx[WorkerOf(b)] = a /\ fpc[WorkerOf(b)] = "sleep"

C6_ReachedReturnsAtOnce ==
  [][\A t \in Threads :
       (fpc[t] = "call" /\ fpc'[t] # "call"
          /\ gl_finish_count_[fctx[t]] >= fcount[t])
       => (fret'[t] = fcall[t] /\ jobs_' = jobs_
             /\ gl_finish_count_' = gl_finish_count_)]_vars

\* C6: no context is flushed beyond its highest requested target, so
\* concurrent calls with the same count_to_pass n on a context whose
\* gl_finish_count_ is n make one GlFinishCalled between them; and a call
\* made when gl_finish_count_ is already greater than count_to_pass returns
\* from its first test with nothing flushed, enqueued or raised.
C6_Coalescing ==
  /\ [](\A c \in Contexts : gl_finish_count_[c] <= gl_finish_count_target_[c])
  /\ [][\A t \in Threads :
          (fpc[t] = "call" /\ fpc'[t] # "call"
             /\ gl_finish_count_[fctx[t]] > fcount[t])
          => (fret'[t] = fcall[t] /\ jobs_' = jobs_
                /\ gl_finish_count_' = gl_finish_count_
                /\ gl_finish_count_target_' = gl_finish_count_target_)]_vars

\* C6 witness: two calls with the same count_to_pass n on the same context are
\* both past their enqueue and not yet returned, both of their finish_task
\* jobs have run, and gl_finish_count_ is n + 1.
C6_Witness ==
  \E t1, t2 \in Threads :
    /\ t1 # t2
    /\ InCall(t1) /\ InCall(t2)
    /\ fctx[t1] = fctx[t2] /\ fcount[t1] = fcount[t2]
    /\ fpc[t1] \in {"lock2", "loop", "wait", "sleep"}
    /\ fpc[t2] \in {"lock2", "loop", "wait", "sleep"}
    /\ jobs_[fctx[t1]] = <<>> /\ wpc[fctx[t1]] = "get"
    /\ gl_finish_count_[fctx[t1]] = fcount[t1] + 1

\* C25: every step that changes a context's gl_finish_count_ or its
\* gl_finish_count_target_ is taken by the thread that holds that context's
\* mutex_: in GlFinishCalled (called by finish_task, inline or as a job, and
\* for the caller's own context inside the wait loop) and at line 679.
C25_WritesUnderMutex ==
  [][\A c \in Contexts :
       (gl_finish_count_'[c] # gl_finish_count_[c]
          \/ gl_finish_count_target_'[c] # gl_finish_count_target_[c])
       => \E t \in Threads :
            /\ mutex_[c] = t
            /\ fpc[t] \in {"raise", "ft_inc", "coop_inc"}
            /\ fpc'[t] # fpc[t]
    ]_vars

\* C25 witness: a dedicated thread inside a Wait() on another context holds
\* the mutex_ of its own context, about to record the glFinish it made for
\* it, after both contexts' targets were raised.
C25_Witness ==
  \E t \in Contexts :
    /\ fpc[t] = "coop_inc" /\ fother[t] = t /\ fctx[t] # t
    /\ mutex_[t] = t
    /\ gl_finish_count_target_[t] > gl_finish_count_[t]
    /\ gl_finish_count_target_[fctx[t]] > 0

\* C26: in every step a context's gl_finish_count_ stays or grows by one, and
\* its gl_finish_count_target_ does not decrease.
C26_CountsMonotonic ==
  [][\A c \in Contexts :
       /\ gl_finish_count_'[c] \in {gl_finish_count_[c], gl_finish_count_[c] + 1}
       /\ gl_finish_count_target_'[c] >= gl_finish_count_target_[c]
    ]_vars

\* C26 witness: a context has recorded two glFinish calls, for two Wait()
\* calls on sync points made before the first and after it.
C26_Witness ==
  \E c \in Contexts :
    /\ gl_finish_count_[c] = 2 /\ gl_finish_count_target_[c] = 2
    /\ \E i, j \in TokenIds :
         /\ tokens[i].ctx = c /\ tokens[i].count = 0
         /\ tokens[j].ctx = c /\ tokens[j].count = 1

\* C27: the step of line 679 in a call WaitForGlFinishCountPast(count_to_pass)
\* leaves the context's gl_finish_count_target_ at the larger of its value
\* and count_to_pass + 1 and the other contexts' targets as they were; hence
\* the target of a context is at least count_to_pass + 1 of every call on it
\* that is past line 679, in whatever order the calls got there.
C27_TargetIsMax ==
  /\ [][\A t \in Threads :
          (fpc[t] = "raise" /\ fpc'[t] # "raise")
          => \A c \in Contexts :
               gl_finish_count_target_'[c] =
                 IF c = fctx[t] /\ gl_finish_count_target_[c] < fcount[t] + 1
                 THEN fcount[t] + 1
                 ELSE gl_finish_count_target_[c]
       ]_vars
  /\ [](\A t \in Threads :
          (InCall(t) /\ fpc[t] \notin {"call", "lock1", "raise"})
          => gl_finish_count_target_[fctx[t]] >= fcount[t] + 1)

\* C27 witness: a thread is at line 679, holding mutex_, with a count_to_pass
\* whose successor is below the target, which another call that is still
\* under way on the same context has raised for a later count.
C27_Witness ==
  \E t1, t2 \in Threads :
    /\ t1 # t2 /\ InCall(t1) /\ InCall(t2) /\ fctx[t1] = fctx[t2]
    /\ fpc[t1] = "raise" /\ mutex_[fctx[t1]] = t1
    /\ fpc[t2] \notin {"call", "lock1", "raise"}
    /\ fcount[t1] < fcount[t2]
    /\ gl_finish_count_target_[fctx[t1]] = fcount[t2] + 1

\* C28 as stated: the step of lines 679-683 on context c wakes the threads
\* asleep on the condition variable of every other context x that is
\* recorded as waiting on c (x's context_waiting_on_ is c).
C28_SignalsContextWaitingOnC ==
  [][\A t \in Threads :
       (fpc[t] = "raise" /\ fpc'[t] # "raise")
       => \A x \in Contexts :
            (x # fctx[t] /\ context_waiting_on_[x] = fctx[t])
            => \A u \in Threads :
                 (fpc[u] = "sleep" /\ fctx[u] = x) => fpc'[u] = "lock2"
    ]_vars

\* C28, amended: the step of lines 679-683 on context c wakes the threads
\* asleep on c's own condition variable and, if c is recorded as waiting on a
\* context x (c's context_waiting_on_ is x), those asleep on x's, among them
\* the thread of c that is blocked in its Wait() on x; no other thread is woken.
C28_SignalsContextCWaitsOn ==
  [][\A t \in Threads :
       (fpc[t] = "raise" /\ fpc'[t] # "raise")
       => \A u \in Threads :
            fpc[u] = "sleep"
            => (fpc'[u] = "lock2"
                  <=> (fctx[u] = fctx[t] \/ fctx[u] = context_waiting_on_[fctx[t]]))
    ]_vars

\* C28 witness: a thread is at line 679 of a call on context c while the
\* dedicated thread of c, inside a Wait() on another context x and recorded
\* as waiting on it, is asleep on x's condition variable.
C28_Witness ==
  \E t \in Threads : \E x \in Contexts :
    /\ fpc[t] = "raise" /\ x # fctx[t]
    /\ context_waiting_on_[fctx[t]] = x
    /\ InCall(WorkerOf(fctx[t])) /\ fctx[WorkerOf(fctx[t])] = x
    /\ fpc[WorkerOf(fctx[t])] = "sleep"

\* C29: a call of WaitForGlFinishCountPast on context c made by the thread
\* whose current context is c never leaves the path of lines 673-703: it
\* returns from the first test or after finish_task has recorded a glFinish,
\* and no step of it puts a job on a queue, writes a context_waiting_on_ or
\* goes to sleep.
C29_InlineOnCurrentThread ==
  /\ [](\A t \in Threads :
          (InCall(t) /\ current[t] = fctx[t])
          => fpc[t] \in {"call", "lock1", "raise", "ft_check", "ft_lock", "ft_inc"})
  /\ [][\A t \in Threads :
          (InCall(t) /\ current[t] = fctx[t] /\ fpc'[t] # fpc[t])
          => /\ jobs_' = jobs_
             /\ context_waiting_on_' = context_waiting_on_
             /\ ~InCall(t)' => (fpc[t] = "call"
                                  \/ (fpc[t] = "ft_inc"
                                        /\ gl_finish_count_'[fctx[t]] = fcount[t] + 1))
       ]_vars

\* C29 witness: a dedicated thread inside Wait() on a sync point of its own
\* context is in GlFinishCalled, called from finish_task on the spot, while
\* another thread's call on the same context is asleep.
C29_Witness ==
  \E t \in Contexts : \E u \in Threads :
    /\ InCall(t) /\ fctx[t] = t /\ current[t] = t /\ fpc[t] = "ft_inc"
    /\ u # t /\ InCall(u) /\ fctx[u] = t /\ fpc[u] = "sleep"

\* The dedicated thread of context c is running a finish_task that
\* WaitForGlFinishCountPast put on its queue (line 718).
RunsFinishJob(c) == ~InCall(WorkerOf(c)) /\ wjob[c].kind = "finish"

\* C30: a queued finish_task calls glFinish only while the context's
\* gl_finish_count_ is still the value it had when the job was scheduled,
\* which is the count_to_pass the job captured, and the GlFinishCalled it
\* then makes takes the count from count_to_pass to count_to_pass + 1; the
\* count never goes back, so the queued jobs of all the calls with the same
\* count_to_pass make one glFinish between them at most.
C30_QueuedFlushOnlyAtScheduledCount ==
  /\ [](\A c \in Contexts :
          (RunsFinishJob(c) /\ fpc[WorkerOf(c)] \in {"ft_lock", "ft_inc"})
          => /\ gl_finish_count_[c] = wjob[c].sched
             /\ gl_finish_count_[c] = wjob[c].count)
  /\ [][\A c \in Contexts :
          /\ gl_finish_count_'[c] >= gl_finish_count_[c]
          /\ (RunsFinishJob(c) /\ fpc[WorkerOf(c)] = "ft_inc"
                 /\ fpc'[WorkerOf(c)] # "ft_inc")
              => /\ gl_finish_count_[c] = wjob[c].count
                 /\ gl_finish_count_'[c] = wjob[c].count + 1
       ]_vars

\* C30 witness: the dedicated thread of a context is about to test the count
\* in a queued finish_task that was scheduled when gl_finish_count_ was still
\* its count_to_pass, after the job of another call with the same
\* count_to_pass has made the glFinish; the call that scheduled it is still
\* under way.
C30_Witness ==
  \E c \in Contexts :
    /\ RunsFinishJob(c) /\ fpc[WorkerOf(c)] = "ft_check"
    /\ wjob[c].sched = wjob[c].count
    /\ gl_finish_count_[c] = wjob[c].count + 1
    /\ InCall(wjob[c].caller) /\ fctx[wjob[c].caller] = c
    /\ fcount[wjob[c].caller] = wjob[c].count

\* Thread t is in a call of WaitForGlFinishCountPast between the note of lines
\* 712-713 and the clearing of line 751, on behalf of its current context.
NotedOn(t) ==
  /\ InCall(t) /\ fother[t] # None
  /\ fpc[t] \notin {"idle", "call", "lock1", "raise", "note_lock", "note"}

\* C31: context_waiting_on_ of a context O names C exactly while a thread
\* that called WaitForGlFinishCountPast of C with O as its current context is
\* inside the call past the note and before the clearing (the path that is
\* not inline), and is empty otherwise; every write to it is made by that
\* thread with O's mutex_ held, the note before the wait loop and the
\* clearing as the call's last step.
C31_WaitingOnWhileBlocked ==
  /\ [](\A o \in Contexts :
          /\ \A t \in Threads :
               (NotedOn(t) /\ fother[t] = o)
               => context_waiting_on_[o] = fctx[t] /\ fctx[t] # o
          /\ context_waiting_on_[o] # None
             => \E t \in Threads : NotedOn(t) /\ fother[t] = o)
  /\ [][\A o \in Contexts :
          context_waiting_on_'[o] # context_waiting_on_[o]
          => /\ mutex_[o] # None /\ fother[mutex_[o]] = o
             /\ mutex_'[o] = None
             /\ \/ /\ fpc[mutex_[o]] = "note"
                   /\ context_waiting_on_[o] = None
                   /\ context_waiting_on_'[o] = fctx[mutex_[o]]
                \/ /\ fpc[mutex_[o]] = "clear"
                   /\ fret'[mutex_[o]] = fcall'[mutex_[o]]
                   /\ context_waiting_on_'[o] = None
       ]_vars

\* C35: a thread that has taken the mutex_ of its current context to note it
\* as waiting (line 711) finds context_waiting_on_ of that context empty: the
\* DCHECK of line 712 holds.
C35_NoteFindsEmpty ==
  \A t \in Threads : fpc[t] = "note" => context_waiting_on_[fother[t]] = None

\* C36: gl_finish_count_ of a context never exceeds its
\* gl_finish_count_target_.
C36_CountWithinTarget ==
  \A c \in Contexts : gl_finish_count_[c] <= gl_finish_count_target_[c]

\* C32: in the wait loop of a call on C made from current context O, the
\* thread, having found C's gl_finish_count_ not past count_to_pass under C's
\* mutex_, goes to flush for O exactly if O's gl_finish_count_ is below O's
\* target, and to sleep otherwise; the flush is made while O's count is still
\* below its target, adds one to O's count and changes no other count; after
\* it the thread takes C's mutex_ again and tests C's count again; it goes to
\* sleep on C's condition variable only from that test, holding C's mutex_
\* ever since, with C's count still not past count_to_pass.
C32_CoopFlushThenRecheck ==
  /\ [](\A t \in Threads :
          fpc[t] = "wait"
          => mutex_[fctx[t]] = t /\ gl_finish_count_[fctx[t]] <= fcount[t])
  /\ [][\A t \in Threads :
          /\ (fpc[t] = "loop" /\ fpc'[t] # "loop"
                 /\ gl_finish_count_[fctx[t]] <= fcount[t])
             => /\ fpc'[t] \in {"coop_lock", "wait"}
                /\ fpc'[t] = "coop_lock"
                   <=> /\ fother[t] # None
                       /\ gl_finish_count_[fother[t]] < gl_finish_count_target_[fother[t]]
                /\ fpc'[t] = "coop_lock" => mutex_'[fctx[t]] = None
          /\ (fpc[t] = "coop_inc" /\ fpc'[t] # "coop_inc")
             => /\ fother[t] = current[t] /\ fother[t] # fctx[t]
                /\ gl_finish_count_[fother[t]] < gl_finish_count_target_[fother[t]]
                /\ gl_finish_count_' =
                     [gl_finish_count_ EXCEPT ![fother[t]] = gl_finish_count_[fother[t]] + 1]
                /\ fpc'[t] = "lock2"
          /\ (fpc[t] = "lock2" /\ fpc'[t] # "lock2")
             => fpc'[t] = "loop" /\ mutex_'[fctx[t]] = t
          /\ (fpc'[t] = "wait" /\ fpc[t] # "wait") => fpc[t] = "loop"
          /\ (fpc'[t] = "sleep" /\ fpc[t] # "sleep")
             => /\ fpc[t] = "wait"
                /\ mutex_[fctx[t]] = t /\ mutex_'[fctx[t]] = None
                /\ gl_finish_count_[fctx[t]] <= fcount[t]
       ]_vars

\* C32 witness: the dedicated thread of O, in a call on C, is about to sleep
\* after the test that followed its cooperative flush: a later call, still
\* under way, found O's count not past its count_to_pass and asked for a
\* flush of O, and O's count is past it now (only O's thread flushes O, and
\* it has been inside its call since before); C's count is not past the
\* count_to_pass of the thread of O.
C32_Witness ==
  \E t, u \in Threads :
    /\ InCall(t) /\ fpc[t] = "wait" /\ fother[t] # None
    /\ u # t /\ fcall[u] > fcall[t] /\ fctx[u] = fother[t]
    /\ InCall(u) /\ fpc[u] # "call"
    /\ gl_finish_count_[fother[t]] > fcount[u]
    /\ gl_finish_count_[fctx[t]] <= fcount[t]
\* C33: no thread holds the mutex_ of two contexts at once; while a thread
\* is taking or holding the mutex_ of its current context O inside a call on
\* C (to note O as waiting, to flush for O, to clear the note) it does not
\* hold C's mutex_.
C33_OneMutexAtATime ==
  \A t \in Threads :
    /\ Cardinality({c \in Contexts : mutex_[c] = t}) <= 1
    /\ fpc[t] \in {"note", "coop_inc", "clear"}
       => mutex_[fother[t]] = t /\ mutex_[fctx[t]] # t
    /\ fpc[t] \in {"note_lock", "coop_lock", "clear_lock"}
       => mutex_[fother[t]] # t /\ mutex_[fctx[t]] # t

\* C33 witness: a thread holds the mutex_ of its current context for the
\* cooperative flush while another thread holds the mutex_ of the context the
\* first one is waiting on, which the first one held at its test.
C33_Witness ==
  \E t, u \in Threads :
    /\ fpc[t] = "coop_inc" /\ mutex_[fother[t]] = t
    /\ u # t /\ mutex_[fctx[t]] = u
\* Thread t is running finish_task.
InFinishTask(t) == fpc[t] \in {"ft_check", "ft_lock", "ft_inc"}

\* C34: whenever finish_task runs, inline or as a queued job, the
\* gl_finish_count_ of its context is at least the count_to_pass it captured
\* (the DCHECK of line 691 holds), and when it is over, having called
\* glFinish once or not at all, the count is past count_to_pass: one more
\* glFinish at most was needed.
C34_FlushTaskAssertionHolds ==
  /\ [](\A t \in Threads :
          InFinishTask(t)
          => gl_finish_count_[FinishTaskContext(t)] >= FinishTaskCount(t))
  /\ [][\A t \in Threads :
          (InFinishTask(t) /\ fpc'[t] \notin {"ft_check", "ft_lock", "ft_inc"})
          => /\ gl_finish_count_'[FinishTaskContext(t)] > FinishTaskCount(t)
             /\ gl_finish_count_'[FinishTaskContext(t)]
                  <= gl_finish_count_[FinishTaskContext(t)] + 1
       ]_vars

\* C34 witness: finish_task is about to record its glFinish for a sync point
\* that was made after an earlier glFinish of the context: the context's count
\* equals the count the sync point captured, which is not 0.
C34_Witness ==
  \E t \in Threads : \E i \in TokenIds :
    /\ fpc[t] = "ft_inc"
    /\ tokens[i].kind = "finish" /\ tokens[i].ctx = FinishTaskContext(t)
    /\ tokens[i].count = FinishTaskCount(t) /\ tokens[i].count > 0
    /\ gl_finish_count_[tokens[i].ctx] = tokens[i].count
\* ------------------------------------------------------------ destruction
\* ~GlContext of context c, lines 342-349, run by a thread t other than the
\* dedicated thread: thread_->Run(job) puts the job that leaves the context on
\* the queue and waits for it (DedicatedThread::Run, lines 143-150).  The
\* object is being destroyed, so CurrentContext().lock() of the dedicated
\* thread yields nothing from now on.  st is what ExitContext(nullptr) returns.
DestroyRun(c, t, st) ==
  LET job == [id |-> nextId + 1, kind |-> "run", caller |-> t, st |-> st] IN
  /\ thread_[c]
  /\ dpc[c] = "alive"
  /\ ~IsCurrentThread(c, t)
  /\ CanCall(t)
  /\ dpc' = [dpc EXCEPT ![c] = "run"]
  /\ dby' = [dby EXCEPT ![c] = t]
  /\ current' = [current EXCEPT ![WorkerOf(c)] = None]
  /\ nextId' = nextId + 1
  /\ submitted' = [submitted EXCEPT ![c] = Append(@, job)]
  /\ done' = [done EXCEPT ![t] = FALSE]
  /\ jobs_' = [jobs_ EXCEPT ![c] = PutJob(@, job)]
  /\ rpc' = [rpc EXCEPT ![t] = "wait"]
  /\ rarg' = [rarg EXCEPT ![t] = job.id]
  /\ UNCHANGED <<wpc, wjob, status, ret, executed>>
  /\ UNCHANGED <<thread_, context_use_mutex_, native, spc, sold, snew, saved_context, sret>>
  /\ UNCHANGED <<syncVars, finishVars, frameVars, self_destruct_, deleted, detached>>

\* ~GlContext, lines 350-355, after thread_->Run returned to a thread that is
\* not the dedicated thread (a failure of the job is only logged):
\* DestroyContext(), the last statement of the destructor's body, destroys the
\* native context.
DestroyContextAtOnce(c) ==
  /\ dpc[c] = "run"
  /\ dpc' = [dpc EXCEPT ![c] = "nocontext"]
  /\ UNCHANGED <<threadVars, switchVars, syncVars, finishVars, frameVars>>
  /\ UNCHANGED <<self_destruct_, dby, deleted, detached>>
DestroyContext(c) ==
  /\ dpc[c] = "run"
  /\ rpc[dby[c]] = "idle"
  /\ dpc' = [dpc EXCEPT ![c] = "nocontext"]
  /\ UNCHANGED <<threadVars, switchVars, syncVars, finishVars, frameVars>>
  /\ UNCHANGED <<self_destruct_, dby, deleted, detached>>

\* ~GlContext after its body, on a thread that is not the dedicated thread:
\* the member thread_ is destroyed: ~DedicatedThread, lines 78-81, gives the
\* invalid job.
DestroyThread(c) ==
  /\ dpc[c] = "nocontext"
  /\ jobs_' = [jobs_ EXCEPT ![c] = PutJob(@, Sentinel)]
  /\ dpc' = [dpc EXCEPT ![c] = "join"]
  /\ UNCHANGED <<wpc, wjob, done, status, rpc, rarg, ret, nextId, submitted, executed>>
  /\ UNCHANGED <<switchVars, syncVars, finishVars, frameVars, self_destruct_, dby, deleted, detached>>

\* ~DedicatedThread, line 82: gl_thread_.join() returns once ThreadBody has
\* returned; the object is gone when its destructor returns.
DestroyJoinNoWait(c) ==
  /\ dpc[c] = "join"
  /\ dpc' = [dpc EXCEPT ![c] = "destroyed"]
  /\ deleted' = [deleted EXCEPT ![c] = @ + 1]
  /\ UNCHANGED <<threadVars, switchVars, syncVars, finishVars, frameVars, self_destruct_, dby, detached>>
DestroyJoin(c) ==
  /\ dpc[c] = "join"
  /\ wpc[c] = "ended"
  /\ dpc' = [dpc EXCEPT ![c] = "destroyed"]
  /\ deleted' = [deleted EXCEPT ![c] = @ + 1]
  /\ UNCHANGED <<threadVars, switchVars, syncVars, finishVars, frameVars, self_destruct_, dby, detached>>

\* ~GlContext of context c, lines 342-349, run by the dedicated thread of c
\* inside a job: thread_->Run(job) runs the job on the spot (line 141).
DestroySelfRun(c, st) ==
  LET job == [id |-> nextId + 1, kind |-> "run", caller |-> WorkerOf(c), st |-> st] IN
  /\ thread_[c]
  /\ dpc[c] = "alive"
  /\ CanCall(WorkerOf(c))
  /\ dpc' = [dpc EXCEPT ![c] = "self"]
  /\ dby' = [dby EXCEPT ![c] = WorkerOf(c)]
  /\ current' = [current EXCEPT ![WorkerOf(c)] = None]
  /\ native' = IF st = "OK" THEN [native EXCEPT ![WorkerOf(c)] = None] ELSE native
  /\ nextId' = nextId + 1
  /\ submitted' = [submitted EXCEPT ![c] = Append(@, job)]
  /\ executed' = [executed EXCEPT ![c] = Append(@, [id |-> job.id, by |-> WorkerOf(c)])]
  /\ ret' = [ret EXCEPT ![WorkerOf(c)] = [id |-> job.id, st |-> st]]
  /\ UNCHANGED <<jobs_, wpc, wjob, done, status, rpc, rarg>>
  /\ UNCHANGED <<thread_, context_use_mutex_, spc, sold, snew, saved_context, sret>>
  /\ UNCHANGED <<syncVars, finishVars, frameVars, self_destruct_, deleted, detached>>

\* ~GlContext, lines 351-355, on the dedicated thread: thread_.release()->
\* SelfDestruct() (lines 85-89) sets self_destruct_ and gives the invalid job;
\* DestroyContext(); no ~DedicatedThread runs here, thread_ was released.
SelfDestructJoins(c) ==
  /\ dpc[c] = "self"
  /\ jobs_' = [jobs_ EXCEPT ![c] = PutJob(@, Sentinel)]
  /\ dpc' = [dpc EXCEPT ![c] = "join"]
  /\ UNCHANGED <<wpc, wjob, done, status, rpc, rarg, ret, nextId, submitted, executed>>
  /\ UNCHANGED <<switchVars, syncVars, finishVars, frameVars, self_destruct_, dby, deleted, detached>>
SelfDestruct(c) ==
  /\ dpc[c] = "self"
  /\ self_destruct_' = [self_destruct_ EXCEPT ![c] = TRUE]
  /\ jobs_' = [jobs_ EXCEPT ![c] = PutJob(@, Sentinel)]
  /\ dpc' = [dpc EXCEPT ![c] = "destroyed"]
  /\ UNCHANGED <<wpc, wjob, done, status, rpc, rarg, ret, nextId, submitted, executed>>
  /\ UNCHANGED <<switchVars, syncVars, finishVars, frameVars, dby, deleted, detached>>

\* ThreadBody after the loop, lines 130-135: if (self_destruct_) delete this;
\* ~DedicatedThread then runs on the dedicated thread itself, lines 75-77:
\* CHECK(self_destruct_); gl_thread_.detach().
ThreadBodyExit(c) ==
  /\ wpc[c] = "exit"
  /\ wpc' = [wpc EXCEPT ![c] = "ended"]
  /\ IF self_destruct_[c]
     THEN /\ deleted' = [deleted EXCEPT ![c] = @ + 1]
          /\ detached' = [detached EXCEPT ![c] = TRUE]
     ELSE UNCHANGED <<deleted, detached>>
  /\ UNCHANGED <<jobs_, wjob, done, status, rpc, rarg, ret, nextId, submitted, executed>>
  /\ UNCHANGED <<switchVars, syncVars, finishVars, frameVars, self_destruct_, dpc, dby>>

\* The threads that give jobs to the dedicated thread of c in SpecDestroy:
\* every thread that is no dedicated thread, and the dedicated thread itself.
\* (The job of a dedicated thread that waits in Run for another dedicated
\* thread does not return while that thread is busy; every job returns here.)
Submitters(c) == {NumContexts + 1, WorkerOf(c)}

\* One step of the dedicated thread of c.
ThreadBodyStep(c) ==
  \/ ThreadBodyGetJob(c)
  \/ ThreadBodyJob(c)
  \/ ThreadBodyJobDone(c)
  \/ ThreadBodyExit(c)
  \/ SelfDestruct(c)

\* One step of a thread inside ~GlContext or inside Run.
CallerStep(t) ==
  \/ RunReturn(t)
  \/ \E c \in Contexts :
       dby[c] = t /\ (DestroyContext(c) \/ DestroyThread(c) \/ DestroyJoin(c))

DestroyNext ==
  \/ \E c \in Contexts : \E t \in Submitters(c), st \in StatusValues :
       nextId < MaxDestroyJobs /\ Run(c, t, st)
  \/ \E t \in Threads : RunReturn(t)
  \/ \E c \in Contexts : \E t \in Submitters(c) :
       nextId < MaxDestroyJobs /\ RunWithoutWaiting(c, t)
  \/ \E c \in Contexts : ThreadBodyGetJob(c)
  \/ \E c \in Contexts : ThreadBodyJob(c)
  \/ \E c \in Contexts : ThreadBodyJobDone(c)
  \/ \E c \in Contexts : ThreadBodyExit(c)
  \/ \E c \in Contexts, t \in PlainThreads, st \in StatusValues : DestroyRun(c, t, st)
  \/ \E c \in Contexts : DestroyContext(c)
  \/ \E c \in Contexts : DestroyThread(c)
  \/ \E c \in Contexts : DestroyJoin(c)
  \/ \E c \in Contexts, st \in StatusValues : DestroySelfRun(c, st)
  \/ \E c \in Contexts : SelfDestruct(c)

SpecDestroy == Init /\ [][DestroyNext]_vars

\* Every dedicated thread keeps running, and a thread whose call can return
\* goes on.
SpecDestroyFair ==
  /\ SpecDestroy
  /\ \A c \in Contexts : WF_vars(ThreadBodyStep(c))
  /\ \A t \in Threads : WF_vars(CallerStep(t))

\* ----------------------------------------------------- destruction claims
\* The gl_func of the job with this id has run on context c and is over.
Completed(c, id) ==
  /\ \E i \in 1..Len(executed[c]) : executed[c][i].id = id
  /\ ~(wpc[c] \in {"job", "done"} /\ wjob[c].id = id)
\* Every job given to the dedicated thread of c so far has run and is over.
AllCompleted(c) ==
  \A i \in 1..Len(submitted[c]) : Completed(c, submitted[c][i].id)

C13_ForeignDestroyJoins ==
  \A c \in Contexts :
    (dby[c] # None /\ dby[c] # WorkerOf(c))
    => /\ dpc[c] \in {"join", "destroyed"}
          => \/ (jobs_[c] # <<>> /\ jobs_[c][Len(jobs_[c])] = Sentinel)
             \/ wpc[c] \in {"exit", "ended"}
       /\ dpc[c] = "destroyed"
          => (wpc[c] = "ended" /\ jobs_[c] = <<>> /\ AllCompleted(c))

\* C13 witness: a context has been destroyed by a thread that is not its
\* dedicated thread, after a job of another caller and the destructor's own
\* job (which failed) ran on it.
C13_Witness ==
  \E c \in Contexts :
    /\ dby[c] \in PlainThreads /\ dpc[c] = "destroyed" /\ deleted[c] = 1
    /\ Len(executed[c]) >= 2
    /\ ret[dby[c]].st = "ERR"

\* C14: a context destroyed on its own dedicated thread never waits for that
\* thread (no wait in Run, no join); self_destruct_ is set together with the
\* invalid job being given; the DedicatedThread object is deleted at most
\* once, and only by ThreadBody after its loop has ended, detached.
C14_SelfDestruct ==
  \A c \in Contexts :
    /\ deleted[c] <= 1
    /\ dby[c] = WorkerOf(c)
       => /\ dpc[c] \in {"self", "destroyed"}
          /\ rpc[WorkerOf(c)] = "idle"
          /\ dpc[c] = "destroyed" <=> self_destruct_[c]
          /\ self_destruct_[c]
             => \/ (jobs_[c] # <<>> /\ jobs_[c][Len(jobs_[c])] = Sentinel)
                \/ wpc[c] \in {"exit", "ended"}
          /\ deleted[c] = 1 <=> wpc[c] = "ended"
          /\ detached[c] <=> wpc[c] = "ended"
    /\ self_destruct_[c] => dby[c] = WorkerOf(c)

\* C14 witness: a context was destroyed inside a job on its dedicated thread
\* while another job was on the queue; that job ran afterwards, then the
\* thread left its loop and deleted the DedicatedThread object.
C14_Witness ==
  \E c \in Contexts :
    /\ dby[c] = WorkerOf(c) /\ deleted[c] = 1 /\ detached[c]
    /\ \E i, j \in 1..Len(executed[c]) :
         i < j /\ executed[c][i].id = ret[WorkerOf(c)].id

\* --------------------------------------------------- SwitchContextAndRun
\* What SwitchContextAndRun leaves alone besides the hand-off state.
andRunFrame == <<threadVars, gl_finish_count_, syncs_, lastReady, addedSince,
                 finishVars, destroyVars, ctor>>

\* SwitchContextAndRun(gl_func) of context c (one without a dedicated thread:
\* GlContext::Run line 396, RunWithoutWaiting line 412) called by thread t,
\* lines 367-368: EnterContext(&saved_context), that is
\* SwitchContext(&saved_context, ThisContextBinding()).
SwitchContextAndRun(c, t) ==
  /\ apc[t] = "idle"
  /\ ~thread_[c]
  /\ SwitchContextCall(t, TRUE, c)
  /\ apc' = [apc EXCEPT ![t] = "enter"]
  /\ actx' = [actx EXCEPT ![t] = c]
  /\ abefore' = [abefore EXCEPT ![t] =
        [current |-> current[t], native |-> native[t], held |-> HeldBy(t)]]
  /\ UNCHANGED <<tokens, dtor, andRunFrame>>

\* Line 368: EnterContext has returned; MP_RETURN_IF_ERROR, or go on to
\* line 369, gl_func().
AndRunEntered(t) ==
  /\ apc[t] = "enter"
  /\ spc[t] = "idle"
  /\ IF sret[t] = "OK"
     THEN /\ apc' = [apc EXCEPT ![t] = "run"]
          /\ UNCHANGED <<actx, abefore>>
     ELSE /\ apc' = [apc EXCEPT ![t] = "idle"]
          /\ actx' = [actx EXCEPT ![t] = None]
          /\ abefore' = [abefore EXCEPT ![t] = NoBindings]
  /\ dtor' = IF sret[t] = "OK" THEN dtor ELSE [dtor EXCEPT ![t] = 0]
  /\ UNCHANGED <<switchVars, tokens, andRunFrame>>

\* Lines 369-371: gl_func has returned (in ~GlFenceSyncPoint it has deleted the
\* fence); ExitContext(&saved_context), that is SwitchContext(nullptr,
\* saved_context).
AndRunExitToNone(t) ==
  /\ apc[t] = "run"
  /\ SwitchContextCall(t, FALSE, None)
  /\ apc' = [apc EXCEPT ![t] = "exit"]
  /\ UNCHANGED <<actx, abefore, tokens, dtor, andRunFrame>>
AndRunExit(t) ==
  /\ apc[t] = "run"
  /\ SwitchContextCall(t, FALSE, saved_context[t])
  /\ apc' = [apc EXCEPT ![t] = "exit"]
  /\ tokens' = IF dtor[t] # 0 THEN [tokens EXCEPT ![dtor[t]] = DeleteSync(@)] ELSE tokens
  /\ UNCHANGED <<actx, abefore, dtor, andRunFrame>>

\* Lines 371-372: ExitContext has returned; MP_RETURN_IF_ERROR, or return
\* status.  The call is over.
AndRunReturn(t) ==
  /\ apc[t] = "exit"
  /\ spc[t] = "idle"
  /\ apc' = [apc EXCEPT ![t] = "idle"]
  /\ actx' = [actx EXCEPT ![t] = None]
  /\ abefore' = [abefore EXCEPT ![t] = NoBindings]
  /\ dtor' = [dtor EXCEPT ![t] = 0]
  /\ UNCHANGED <<switchVars, tokens, andRunFrame>>

AndRunNext ==
  \/ \E t \in SwitchThreads, save \in BOOLEAN, new \in Contexts \cup {None} :
       apc[t] = "idle" /\ SwitchContext(t, save, new)
  \/ \E t \in SwitchThreads, ok \in BOOLEAN : SwitchContextUnbind(t, ok)
  \/ \E t \in SwitchThreads : SwitchContextUnlock(t)
  \/ \E t \in SwitchThreads : SwitchContextReset(t)
  \/ \E t \in SwitchThreads : SwitchContextLock(t)
  \/ \E t \in SwitchThreads, ok \in BOOLEAN : SwitchContextBind(t, ok)
  \/ \E t \in SwitchThreads, ok \in BOOLEAN : SwitchContextBindNone(t, ok)
  \/ \E c \in Contexts, t \in SwitchThreads : SwitchContextAndRun(c, t)
  \/ \E t \in SwitchThreads : AndRunEntered(t)
  \/ \E t \in SwitchThreads : AndRunExit(t)
  \/ \E t \in SwitchThreads : AndRunReturn(t)

SpecAndRun == InitNoThread /\ [][AndRunNext]_vars

\* C19: a step in which SwitchContextAndRun returns after EnterContext and
\* ExitContext both succeeded leaves the thread's current-context record, its
\* native binding and the set of use-locks it holds as they were when the
\* call was made.
C19_AndRunRestores ==
  [][\A t \in Threads :
       (apc[t] = "exit" /\ apc'[t] = "idle" /\ sret[t] = "OK")
       => /\ current'[t] = abefore[t].current
          /\ native'[t] = abefore[t].native
          /\ HeldBy(t)' = abefore[t].held
    ]_vars

\* C19 witness: a thread that was in context x has run a job through
\* SwitchContextAndRun of another context y; its ExitContext has succeeded
\* and it is back in x, holding the use-lock of x only, about to return.
C19_Witness ==
  \E t \in Threads : \E x, y \in Contexts :
    /\ x # y
    /\ apc[t] = "exit" /\ spc[t] = "idle" /\ sret[t] = "OK" /\ actx[t] = y
    /\ abefore[t] = [current |-> x, native |-> x, held |-> {x}]
    /\ current[t] = x /\ native[t] = x /\ HeldBy(t) = {x}

\* ------------------- WaitForGlFinishCountPast without dedicated threads
\* Line 718 on a context without a dedicated thread: RunWithoutWaiting runs
\* finish_task on the calling thread through SwitchContextAndRun (lines
\* 411-415), which begins with EnterContext(&saved_context) (lines 367-368).
WaitRunInline(t) ==
  LET c == fctx[t] IN
  /\ fpc[t] = "enqueue"
  /\ ~thread_[c]
  /\ apc[t] = "idle"
  /\ SwitchContextCall(t, TRUE, c)
  /\ apc' = [apc EXCEPT ![t] = "enter"]
  /\ actx' = [actx EXCEPT ![t] = c]
  /\ abefore' = [abefore EXCEPT ![t] =
        [current |-> current[t], native |-> native[t], held |-> HeldBy(t)]]
  /\ fpc' = [fpc EXCEPT ![t] = "inline"]
  /\ UNCHANGED <<gl_finish_count_target_, context_waiting_on_, mutex_, fctx, fcount,
                 fother, fcall, fret, ncalls>>
  /\ UNCHANGED <<threadVars, syncVars, destroyVars, ctor, dtor>>

\* Line 369 in that SwitchContextAndRun: gl_func() calls finish_task.
InlineFinishTask(t) ==
  /\ fpc[t] = "inline"
  /\ apc[t] = "run"
  /\ fpc' = [fpc EXCEPT ![t] = "ft_check"]
  /\ UNCHANGED <<jobs_, wpc, wjob, gl_finish_count_, gl_finish_count_target_,
                 context_waiting_on_, mutex_, fctx, fcount, fother, fcall, fret, ncalls>>
  /\ UNCHANGED nonFinishVars

\* Lines 416-418 and 719: SwitchContextAndRun has returned, with an error
\* (which is logged) if EnterContext or ExitContext failed; go on to the
\* wait loop.
WaitInlineDone(t) ==
  /\ fpc[t] \in {"inline", "ran"}
  /\ apc[t] = "idle"
  /\ fpc' = [fpc EXCEPT ![t] = "lock2"]
  /\ UNCHANGED <<jobs_, wpc, wjob, gl_finish_count_, gl_finish_count_target_,
                 context_waiting_on_, mutex_, fctx, fcount, fother, fcall, fret, ncalls>>
  /\ UNCHANGED nonFinishVars

\* Thread t is in its own code: in no call of SwitchContext,
\* SwitchContextAndRun or WaitForGlFinishCountPast.
InOwnCode(t) == spc[t] = "idle" /\ apc[t] = "idle" /\ fpc[t] = "idle"

\* The coordinator among contexts without a dedicated thread: the threads
\* enter and leave contexts with EnterContext and ExitContext and call Wait()
\* on finish-based sync points from where they are; the sync points are made
\* before the first Wait().
InlineNext ==
  \/ \E c \in Contexts : ncalls = 0 /\ NewCount(c) /\ CreateFinishSyncPoint(c)
  \/ \E t \in PlainThreads, new \in Contexts \cup {None} :
       InOwnCode(t) /\ SwitchContext(t, FALSE, new)
  \/ \E t \in PlainThreads, ok \in BOOLEAN : SwitchContextUnbind(t, ok)
  \/ \E t \in PlainThreads : SwitchContextUnlock(t)
  \/ \E t \in PlainThreads : SwitchContextReset(t)
  \/ \E t \in PlainThreads : SwitchContextLock(t)
  \/ \E t \in PlainThreads, ok \in BOOLEAN : SwitchContextBind(t, ok)
  \/ \E t \in PlainThreads, ok \in BOOLEAN : SwitchContextBindNone(t, ok)
  \/ \E t \in PlainThreads, i \in TokenIds :
       InOwnCode(t) /\ WaitCallWithin(t, i, MaxInlineWaits)
  \/ \E t \in PlainThreads : WaitCheck(t)
  \/ \E t \in PlainThreads : WaitLockTarget(t)
  \/ \E t \in PlainThreads : WaitRaiseTarget(t)
  \/ \E t \in PlainThreads : WaitLockOther(t)
  \/ \E t \in PlainThreads : WaitNoteOther(t)
  \/ \E t \in PlainThreads : WaitRunInline(t)
  \/ \E t \in PlainThreads : AndRunEntered(t)
  \/ \E t \in PlainThreads : InlineFinishTask(t)
  \/ \E t \in PlainThreads : FinishTask(t)
  \/ \E t \in PlainThreads : FinishTaskLock(t)
  \/ \E t \in PlainThreads : FinishTaskFinishCalled(t)
  \/ \E t \in PlainThreads : fpc[t] = "ran" /\ AndRunExit(t)
  \/ \E t \in PlainThreads : AndRunReturn(t)
  \/ \E t \in PlainThreads : WaitInlineDone(t)
  \/ \E t \in PlainThreads : WaitLockLoop(t)
  \/ \E t \in PlainThreads : WaitLoop(t)
  \/ \E t \in PlainThreads : WaitSleep(t)
  \/ \E t \in PlainThreads : WaitLockCoop(t)
  \/ \E t \in PlainThreads : WaitCoopFinishCalled(t)
  \/ \E t \in PlainThreads : WaitLockClear(t)
  \/ \E t \in PlainThreads : WaitClearOther(t)

SpecInline == InitNoThread /\ [][InlineNext]_vars

\* ----------------------------------------------- GlFenceSyncPoint, created
\* A GlFenceSyncPoint of context c before its job has run.
NewFence(c) == [kind |-> "fence", ctx |-> c, count |-> 0, sync_ |-> FALSE, fence |-> "none"]

\* GlFenceSyncPoint::GlFenceSyncPoint(gl_context), lines 522-528, on thread t:
\* gl_context_->Run(job), which on a context with a dedicated thread is
\* thread_->Run (line 388): on that thread the job runs on the spot (line
\* 141), otherwise it is put on the queue and the constructor waits for it
\* (lines 143-156).
GlFenceSyncPointAsync(c, t) ==
  LET job == [id |-> nextId + 1, kind |-> "void", caller |-> t, st |-> "OK"] IN
  /\ CanCall(t)
  /\ ctor[t] = 0
  /\ thread_[c] /\ dpc[c] = "alive"
  /\ nextId < MaxJobs
  /\ \E i \in TokenIds : tokens[i].kind = "none"
  /\ nextId' = nextId + 1
  /\ submitted' = [submitted EXCEPT ![c] = Append(@, job)]
  /\ tokens' = [tokens EXCEPT ![FreeTokenId] = NewFence(c)]
  /\ jobs_' = [jobs_ EXCEPT ![c] = PutJob(@, job)]
  /\ UNCHANGED <<wpc, wjob, done, status, rpc, rarg, ret, executed>>
  /\ UNCHANGED <<gl_finish_count_, syncs_, lastReady, addedSince>>
  /\ UNCHANGED <<switchVars, finishVars, frameVars, destroyVars>>
GlFenceSyncPoint(c, t) ==
  LET job == [id |-> nextId + 1, kind |-> "run", caller |-> t, st |-> "OK"] IN
  /\ CanCall(t)
  /\ ctor[t] = 0
  /\ thread_[c] /\ dpc[c] = "alive"
  /\ nextId < MaxJobs
  /\ \E i \in TokenIds : tokens[i].kind = "none"
  /\ nextId' = nextId + 1
  /\ submitted' = [submitted EXCEPT ![c] = Append(@, job)]
  /\ IF IsCurrentThread(c, t)
     THEN /\ tokens' = [tokens EXCEPT ![FreeTokenId] = FenceInserted(NewFence(c))]
          /\ executed' = [executed EXCEPT ![c] = Append(@, [id |-> job.id, by |-> t])]
          /\ ret' = [ret EXCEPT ![t] = [id |-> job.id, st |-> "OK"]]
          /\ UNCHANGED <<jobs_, done, status, rpc, rarg, ctor>>
     ELSE /\ tokens' = [tokens EXCEPT ![FreeTokenId] = NewFence(c)]
          /\ ctor' = [ctor EXCEPT ![t] = FreeTokenId]
          /\ done' = [done EXCEPT ![t] = FALSE]
          /\ jobs_' = [jobs_ EXCEPT ![c] = PutJob(@, job)]
          /\ rpc' = [rpc EXCEPT ![t] = "wait"]
          /\ rarg' = [rarg EXCEPT ![t] = job.id]
          /\ UNCHANGED <<executed, ret, status>>
  /\ UNCHANGED <<wpc, wjob>>
  /\ UNCHANGED <<gl_finish_count_, syncs_, lastReady, addedSince>>
  /\ UNCHANGED <<switchVars, finishVars, apc, actx, abefore, dtor, destroyVars>>

\* Line 528: Run has returned (lines 388-399), the constructor returns.
GlFenceSyncPointReturn(t) ==
  /\ ctor[t] # 0
  /\ rpc[t] = "idle"
  /\ ctor' = [ctor EXCEPT ![t] = 0]
  /\ UNCHANGED <<threadVars, switchVars, syncVars, finishVars, apc, actx, abefore, dtor,
                 destroyVars>>

FenceNext ==
  \/ \E c \in Contexts, t \in Threads : GlFenceSyncPoint(c, t)
  \/ \E t \in Threads : GlFenceSyncPointReturn(t)
  \/ \E t \in Threads : RunReturn(t)
  \/ \E c \in Contexts, t \in Threads : RunWithoutWaiting(c, t)
  \/ \E c \in Contexts : ThreadBodyGetJob(c)
  \/ \E c \in Contexts : ThreadBodyJob(c)
  \/ \E c \in Contexts : ThreadBodyJobDone(c)

SpecFence == Init /\ [][FenceNext]_vars

\* The GlFenceSyncPoint with id i exists and its constructor has returned.
Constructed(i) == tokens[i].kind = "fence" /\ \A t \in Threads : ctor[t] # i

\* C20 as stated: a step that begins the construction of a GlFenceSyncPoint
\* completes it: the constructor has returned and its thread waits for nothing.
C20_ConstructionDoesNotBlock ==
  [][\A i \in TokenIds :
       (tokens[i].kind = "none" /\ tokens'[i].kind = "fence")
       => (Constructed(i)' /\ rpc' = rpc)
    ]_vars

\* C20, amended: the constructor of a GlFenceSyncPoint returns only after its
\* job has run on the owning context (sync_ holds the fence); until the job
\* has run, a constructing thread that is not the context's dedicated thread
\* is blocked in Run.
C20_ConstructionWaitsForJob ==
  /\ \A i \in TokenIds : Constructed(i) => tokens[i].sync_
  /\ \A t \in Threads :
       (ctor[t] # 0 /\ ~tokens[ctor[t]].sync_)
       => (rpc[t] = "wait" /\ ~done[t])

\* C20 witness: a thread is blocked in the constructor of a GlFenceSyncPoint
\* while the dedicated thread of the owning context is inside an earlier job
\* and the fence job is still on the queue.
C20_Witness ==
  \E t \in PlainThreads : \E c \in Contexts :
    /\ ctor[t] # 0 /\ tokens[ctor[t]].ctx = c /\ ~tokens[ctor[t]].sync_
    /\ rpc[t] = "wait"
    /\ wpc[c] = "job" /\ wjob[c].id # rarg[t]
    /\ \E k \in 1..Len(jobs_[c]) : jobs_[c][k].id = rarg[t]

\* --------------------------------------------- GlFenceSyncPoint, destroyed
\* A job can be run on context c at once: c has a dedicated thread, or no
\* thread holds its context_use_mutex_.
CanUse(c) == thread_[c] \/ context_use_mutex_[c] = None

\* The GlFenceSyncPoint objects made so far.
Fences == {i \in TokenIds : tokens[i].kind # "none"}

\* GlFenceSyncPoint::~GlFenceSyncPoint, lines 530-535, of sync point i on
\* thread t: if (sync_) gl_context_->RunWithoutWaiting(glDeleteSync(sync)).
\* GlContext::RunWithoutWaiting, lines 402-420: with a dedicated thread,
\* thread_->RunWithoutWaiting puts the job on the queue (lines 403-409);
\* without one the job runs on the calling thread in SwitchContextAndRun
\* (lines 411-418), which begins with EnterContext.
DestroyGlFenceSyncPointAlways(i, t) ==
  LET c == tokens[i].ctx
      job == [id |-> nextId + 1, kind |-> "delete", caller |-> t, st |-> "OK", sync |-> i]
  IN
  /\ tokens[i].kind = "fence"
  /\ \A u \in Threads : ctor[u] # i
  /\ CanCall(t) /\ spc[t] = "idle" /\ apc[t] = "idle"
  /\ tokens' = [tokens EXCEPT ![i].kind = "destroyed"]
  /\ IF thread_[c]
     THEN /\ nextId < MaxJobs
          /\ dpc[c] = "alive"
          /\ nextId' = nextId + 1
          /\ submitted' = [submitted EXCEPT ![c] = Append(@, job)]
          /\ jobs_' = [jobs_ EXCEPT ![c] = PutJob(@, job)]
          /\ UNCHANGED <<wpc, wjob, done, status, rpc, rarg, ret, executed>>
          /\ UNCHANGED <<switchVars, apc, actx, abefore, dtor>>
     ELSE /\ SwitchContextCall(t, TRUE, c)
          /\ apc' = [apc EXCEPT ![t] = "enter"]
          /\ actx' = [actx EXCEPT ![t] = c]
          /\ abefore' = [abefore EXCEPT ![t] =
                [current |-> current[t], native |-> native[t], held |-> HeldBy(t)]]
          /\ dtor' = [dtor EXCEPT ![t] = i]
          /\ UNCHANGED threadVars
  /\ UNCHANGED <<gl_finish_count_, syncs_, lastReady, addedSince>>
  /\ UNCHANGED <<finishVars, destroyVars, ctor>>
DestroyGlFenceSyncPoint(i, t) ==
  LET c == tokens[i].ctx
      job == [id |-> nextId + 1, kind |-> "delete", caller |-> t, st |-> "OK", sync |-> i]
  IN
  /\ tokens[i].kind = "fence"
  /\ \A u \in Threads : ctor[u] # i
  /\ CanCall(t) /\ spc[t] = "idle" /\ apc[t] = "idle"
  /\ tokens' = [tokens EXCEPT ![i].kind = "destroyed"]
  /\ IF ~tokens[i].sync_
     THEN UNCHANGED <<threadVars, switchVars, apc, actx, abefore, dtor>>
     ELSE IF thread_[c]
     THEN /\ nextId < MaxJobs
          /\ dpc[c] = "alive"
          /\ nextId' = nextId + 1
          /\ submitted' = [submitted EXCEPT ![c] = Append(@, job)]
          /\ jobs_' = [jobs_ EXCEPT ![c] = PutJob(@, job)]
          /\ UNCHANGED <<wpc, wjob, done, status, rpc, rarg, ret, executed>>
          /\ UNCHANGED <<switchVars, apc, actx, abefore, dtor>>
     ELSE /\ SwitchContextCall(t, TRUE, c)
          /\ apc' = [apc EXCEPT ![t] = "enter"]
          /\ actx' = [actx EXCEPT ![t] = c]
          /\ abefore' = [abefore EXCEPT ![t] =
                [current |-> current[t], native |-> native[t], held |-> HeldBy(t)]]
          /\ dtor' = [dtor EXCEPT ![t] = i]
          /\ UNCHANGED threadVars
  /\ UNCHANGED <<gl_finish_count_, syncs_, lastReady, addedSince>>
  /\ UNCHANGED <<finishVars, destroyVars, ctor>>

\* GlFenceSyncPoint::WaitOnGpu, lines 553-557: if (!sync_) return; otherwise
\* glWaitSync(sync_, 0, GL_TIMEOUT_IGNORED), which leaves the sync object and
\* the handle as they are.
FenceWaitOnGpu(i) ==
  /\ tokens[i].kind = "fence"
  /\ UNCHANGED vars

\* Sync points are made, waited for and asked IsReady() when their context can
\* be used at once; they are destroyed at any time, on a context without a dedicated
\* thread by the threads that are no dedicated thread, which also enter and
\* leave that context on their own account (ExitContext of no saved context).
FenceDeleteNext ==
  \/ \E c \in Contexts :
       CanUse(c) /\ Cardinality(Fences) < MaxFences /\ CreateFenceSyncPoint(c)
  \/ \E i \in TokenIds : FenceSignaled(i)
  \/ \E i \in TokenIds :
       tokens[i].kind = "fence" /\ CanUse(tokens[i].ctx) /\ IsReady(i)
  \/ \E i \in TokenIds, ok \in BOOLEAN :
       tokens[i].kind = "fence" /\ CanUse(tokens[i].ctx) /\ Wait(i, ok)
  \/ \E i \in TokenIds : FenceWaitOnGpu(i)
  \/ \E i \in TokenIds : \E t \in Threads :
       /\ tokens[i].kind = "fence"
       /\ thread_[tokens[i].ctx] \/ t \in PlainThreads
       /\ DestroyGlFenceSyncPoint(i, t)
  \/ \E c \in Contexts : ThreadBodyGetJob(c)
  \/ \E c \in Contexts : ThreadBodyJob(c)
  \/ \E t \in PlainThreads, new \in Contexts \cup {None} :
       /\ apc[t] = "idle"
       /\ new # None => ~thread_[new]
       /\ SwitchContext(t, FALSE, new)
  \/ \E t \in PlainThreads, ok \in BOOLEAN : SwitchContextUnbind(t, ok)
  \/ \E t \in PlainThreads : SwitchContextUnlock(t)
  \/ \E t \in PlainThreads : SwitchContextReset(t)
  \/ \E t \in PlainThreads : SwitchContextLock(t)
  \/ \E t \in PlainThreads, ok \in BOOLEAN : SwitchContextBind(t, ok)
  \/ \E t \in PlainThreads, ok \in BOOLEAN : SwitchContextBindNone(t, ok)
  \/ \E t \in PlainThreads : AndRunEntered(t)
  \/ \E t \in PlainThreads : AndRunExit(t)
  \/ \E t \in PlainThreads : AndRunReturn(t)

SpecFenceDelete == InitMixed /\ [][FenceDeleteNext]_vars

\* C21 as stated: a step that destroys a GlFenceSyncPoint completes the
\* destructor with the destroying thread inside no call; if the sync point
\* still held its fence (no IsReady() or Wait() saw it signaled) the step has
\* put one job that deletes the fence at the back of the owning context's
\* queue, and otherwise it has put nothing on any queue.
C21_DestructionNeverBlocks ==
  [][\A i \in TokenIds :
       (tokens[i].kind = "fence" /\ tokens'[i].kind = "destroyed")
       => /\ \A t \in Threads : dtor'[t] # i
          /\ spc' = spc /\ apc' = apc
          /\ IF tokens[i].sync_
             THEN /\ Len(jobs_'[tokens[i].ctx]) = Len(jobs_[tokens[i].ctx]) + 1
                  /\ jobs_'[tokens[i].ctx][Len(jobs_'[tokens[i].ctx])].kind = "delete"
                  /\ jobs_'[tokens[i].ctx][Len(jobs_'[tokens[i].ctx])].sync = i
             ELSE jobs_' = jobs_
    ]_vars

\* A thread inside the destructor of a GlFenceSyncPoint of a context without
\* a dedicated thread is waiting for the context_use_mutex_ of that context,
\* which another thread that has entered the context holds, while the job of
\* another destructor is on the queue of the context with a dedicated thread.
C21_Witness ==
  \E t, u \in Threads : \E c \in Contexts :
    /\ dtor[t] # 0 /\ tokens[dtor[t]].ctx = c /\ ~thread_[c]
    /\ apc[t] = "enter" /\ spc[t] = "lock" /\ snew[t] = c
    /\ u # t /\ context_use_mutex_[c] = u /\ current[u] = c /\ spc[u] = "idle"
    /\ tokens[dtor[t]].fence # "deleted"
    /\ \E d \in Contexts : thread_[d] /\ jobs_[d] # <<>>

\* C37: over any sequence of Wait(), IsReady(), WaitOnGpu() and destruction
\* of fence-based sync points, no GL sync object is deleted twice.  A step
\* that clears the handle sync_ is the step that deletes the object, and the
\* object was alive (signaled, or unsignaled and reached during the client
\* wait) before it; the only other deletion is the one the destructor
\* requested, of the object of a destroyed sync point whose handle was still
\* set; and the destructor of a sync point whose handle is cleared puts no job
\* on any queue and starts no call.
C37_FenceDeletedAtMostOnce ==
  /\ [](\A i \in TokenIds : tokens[i].fence # "deleted twice")
  /\ [][\A i \in TokenIds :
          /\ (tokens[i].sync_ /\ ~tokens'[i].sync_)
             => /\ tokens[i].kind = "fence"
                /\ tokens[i].fence \in {"signaled", "unsignaled"}
                /\ tokens'[i].fence = "deleted"
          /\ (tokens[i].fence # "deleted" /\ tokens'[i].fence = "deleted")
             => \/ tokens[i].kind = "fence" /\ tokens[i].sync_ /\ ~tokens'[i].sync_
                \/ tokens[i].kind = "destroyed" /\ tokens[i].sync_ /\ tokens'[i].sync_
          /\ (tokens[i].kind = "fence" /\ tokens'[i].kind = "destroyed"
                /\ ~tokens[i].sync_)
             => jobs_' = jobs_ /\ dtor' = dtor /\ apc' = apc /\ spc' = spc
     ]_vars

\* Two sync points have been destroyed and every destructor's request is
\* served: the object of one was deleted by IsReady() or Wait(), which cleared
\* the handle, so that its destructor requested nothing; the object of the
\* other was deleted by the job its destructor requested.
C37_Witness ==
  \E i, j \in TokenIds :
    /\ tokens[i].kind = "destroyed" /\ ~tokens[i].sync_ /\ tokens[i].fence = "deleted"
    /\ tokens[j].kind = "destroyed" /\ tokens[j].sync_ /\ tokens[j].fence = "deleted"
    /\ \A c \in Contexts : jobs_[c] = <<>> /\ wjob[c] = NoJob
    /\ \A t \in Threads : dtor[t] = 0 /\ apc[t] = "idle"

\* C38: when SetCurrentContextBinding({}) of line 458 fails, SwitchContext
\* returns the error from there: the step changes no context_use_mutex_, no
\* thread-local current context and no native binding, the thread still holds
\* the context_use_mutex_ of its old context, which is still its current
\* context, and it holds no context_use_mutex_ of the target.  The unbinding
\* is the first step of the call after its entry, so that the call has not
\* been at new_context_obj->context_use_mutex_.Lock() before it either.
C38_UnbindFailureKeepsOld ==
  /\ [](\A t \in Threads :
          spc[t] = "unbind"
          => /\ sold[t] # None /\ current[t] = sold[t] /\ snew[t] # sold[t]
             /\ context_use_mutex_[sold[t]] = t
             /\ snew[t] # None => context_use_mutex_[snew[t]] # t)
  /\ [][\A t \in Threads :
          /\ (spc[t] # "unbind" /\ spc'[t] = "unbind") => spc[t] = "idle"
          /\ (spc[t] = "unbind" /\ spc'[t] # "unbind")
             => \/ spc'[t] = "unlock" /\ sret'[t] = sret[t]
                \/ /\ spc'[t] = "idle" /\ sret'[t] = "ERR"
                   /\ context_use_mutex_' = context_use_mutex_
                   /\ current' = current /\ native' = native
                   /\ context_use_mutex_'[current'[t]] = t
     ]_vars

\* SwitchContext of a thread that asked for its bindings to be saved has
\* returned an error with the thread still current on a context, holding its
\* context_use_mutex_ and bound to it: the unbinding failed.
C38_Witness ==
  \E t \in Threads : \E c \in Contexts :
    /\ spc[t] = "idle" /\ sret[t] = "ERR"
    /\ current[t] = c /\ native[t] = c /\ context_use_mutex_[c] = t
    /\ saved_context[t] = c

\* C39: a thread that is current on a context without a dedicated thread and
\* calls Run on that same context goes through SwitchContextAndRun without
\* ever being inside the unbind/unlock/lock steps of SwitchContext: at every
\* moment of the call it is current on the context and holds its
\* context_use_mutex_, both calls of SwitchContext return OK at once, and when
\* the call returns the thread is still current on the context and still
\* holds the mutex.  No thread ever waits for a context_use_mutex_ it holds.
C39_NestedRunKeepsLock ==
  /\ [](\A t \in Threads :
          /\ (apc[t] # "idle" /\ actx[t] # None /\ abefore[t].current = actx[t])
             => /\ spc[t] = "idle" /\ sret[t] = "OK"
                /\ current[t] = actx[t]
                /\ context_use_mutex_[actx[t]] = t
          /\ spc[t] = "lock" => context_use_mutex_[snew[t]] # t)
  /\ [][\A t \in Threads :
          (apc[t] # "idle" /\ actx[t] # None /\ abefore[t].current = actx[t])
          => /\ context_use_mutex_'[actx[t]] = t
             /\ current'[t] = actx[t]
             /\ \/ apc'[t] = apc[t]
                \/ apc'[t] = CASE apc[t] = "enter" -> "run"
                                [] apc[t] = "run" -> "exit"
                                [] OTHER -> "idle"
     ]_vars

\* A nested Run has executed its job and come back from ExitContext: the
\* thread is current on the context it was current on when it called and
\* holds its context_use_mutex_, for which another thread is waiting.
C39_Witness ==
  \E t, u \in Threads : \E c \in Contexts :
    /\ apc[t] = "exit" /\ spc[t] = "idle" /\ sret[t] = "OK"
    /\ actx[t] = c /\ abefore[t].current = c
    /\ current[t] = c /\ context_use_mutex_[c] = t
    /\ u # t /\ spc[u] = "lock" /\ snew[u] = c

\* DestroyContext() of line 355 has run in ~GlContext of context c, entered by
\* a thread that is not the dedicated thread of c.
ForeignDestroyed(c) ==
  /\ dby[c] # None /\ dby[c] # WorkerOf(c)
  /\ dpc[c] \in {"nocontext", "join", "destroyed"}
\* The job ~GlContext gave to thread_->Run: the last job given to the context.
ExitJob(c) == submitted[c][Len(submitted[c])]

\* C40 as stated: once a thread that is not the dedicated thread has destroyed
\* the native context, the dedicated thread is bound to it no more, has
\* emptied its queue and has been joined.
C40_NativeDestroyedAfterJoin ==
  \A c \in Contexts :
    ForeignDestroyed(c)
    => /\ native[WorkerOf(c)] # c
       /\ jobs_[c] = <<>>
       /\ wpc[c] = "ended"

\* C40, amended: when a thread that is not the dedicated thread destroys the
\* native context, the dedicated thread has run every job given to it, the
\* last of them the job of ~GlContext that calls ExitContext(nullptr), and is
\* bound to the context no more if that call succeeded; its queue is empty,
\* the invalid job has not been given yet and ThreadBody is still in its loop.
\* The invalid job is given and the thread joined afterwards: the destructor
\* has returned only if ThreadBody has returned.
C40_TeardownOrder ==
  /\ [](\A c \in Contexts :
          ForeignDestroyed(c)
          => /\ submitted[c] # <<>> /\ ExitJob(c).caller = dby[c]
             /\ AllCompleted(c)
             /\ ExitJob(c).st = "OK" => native[WorkerOf(c)] # c
             /\ dpc[c] = "nocontext" => (jobs_[c] = <<>> /\ wpc[c] = "get")
             /\ dpc[c] = "destroyed" => (jobs_[c] = <<>> /\ wpc[c] = "ended"))
  /\ [][\A c \in Contexts :
          /\ (~ForeignDestroyed(c) /\ ForeignDestroyed(c)')
             => /\ dpc[c] = "run" /\ dpc'[c] = "nocontext"
                /\ wpc[c] = "get" /\ jobs_[c] = <<>>
                /\ rpc[dby[c]] = "idle"
          /\ (dpc[c] = "nocontext" /\ dpc'[c] # "nocontext")
             => (dpc'[c] = "join" /\ jobs_'[c] = <<Sentinel>>)
     ]_vars

\* The native context has been destroyed by a thread that is not the
\* dedicated thread, after the dedicated thread ran a job of another call and
\* then the destructor's job, which unbound it; the dedicated thread waits for
\* a job and is yet to be given the invalid one.
C40_Witness ==
  \E c \in Contexts :
    /\ ForeignDestroyed(c) /\ dpc[c] = "nocontext"
    /\ Len(executed[c]) >= 2
    /\ ExitJob(c).st = "OK" /\ native[WorkerOf(c)] = None
    /\ wpc[c] = "get" /\ jobs_[c] = <<>>

====
